---------------------------- MODULE Spec2Model ----------------------------
(***************************************************************************)
(* metaphite: a routing/merging reverse proxy in front of several          *)
(* graphite servers.  The model covers the query package (lexer, parser,   *)
(* AST operations, brace expansion, glob matching), the backend Mux        *)
(* (classification, buckets, fan-out, merge), the multi package's         *)
(* ProxyRequests dispatcher and Proxy, and Config.MapRequest.              *)
(*                                                                         *)
(* Strings are sequences of one-character strings, so that Split, Expand,  *)
(* Match and the lexer work on characters as the Go code does.             *)
(***************************************************************************)
EXTENDS Integers, Sequences, FiniteSets, TLC

(***************************************************************************)
(* Characters                                                              *)
(***************************************************************************)

\* the character sets of the lexer
charNumeric == {"0", "1", "2", "3", "4", "5", "6", "7", "8", "9"}

charAlpha ==
    {"a", "b", "c", "d", "e", "f", "g", "h", "i", "j", "k", "l", "m",
     "n", "o", "p", "q", "r", "s", "t", "u", "v", "w", "x", "y", "z",
     "A", "B", "C", "D", "E", "F", "G", "H", "I", "J", "K", "L", "M",
     "N", "O", "P", "Q", "R", "S", "T", "U", "V", "W", "X", "Y", "Z"}

charAlphanum == charAlpha \cup charNumeric

charDelim == {"(", ")", ","}

charGlob == {"[", "]", "{", "}", "*"}

charDot == {"."}

charIdentifier == charAlphanum \cup {"-", "_"}

charQuote == {"\"", "'"}

charWhitespace == {" ", "\t", "\r", "\n", "\f"}

\* the bytes the model uses, in ASCII order (for the ranges of path.Match)
AsciiOrder ==
    <<"\t", "\n", "\f", "\r", " ", "\"", "'", "(", ")", "*", "+", ",", "-",
      ".", "/", "0", "1", "2", "3", "4", "5", "6", "7", "8", "9", "=", "?",
      "A", "B", "C", "D", "E", "F", "G", "H", "I", "J", "K", "L", "M",
      "N", "O", "P", "Q", "R", "S", "T", "U", "V", "W", "X", "Y", "Z",
      "[", "\\", "]", "^", "_",
      "a", "b", "c", "d", "e", "f", "g", "h", "i", "j", "k", "l", "m",
      "n", "o", "p", "q", "r", "s", "t", "u", "v", "w", "x", "y", "z",
      "{", "}">>

Ord(c) == CHOOSE i \in 1..Len(AsciiOrder) : AsciiOrder[i] = c

\* strings.Index(s, c): the first position of c in s, 0 when absent
IndexOf(s, c) ==
    IF \E i \in 1..Len(s) : s[i] = c
    THEN CHOOSE i \in 1..Len(s) : s[i] = c /\ \A j \in 1..(i - 1) : s[j] # c
    ELSE 0

\* s[from:] and s[:to] of Go, on 1-based sequences
From(s, i) == SubSeq(s, i, Len(s))

(***************************************************************************)
(* package query: Metric                                                   *)
(***************************************************************************)

\* Split at the last dot instead of the first
SplitAtLastDot(m) ==
    LET dots == {i \in 1..Len(m) : m[i] = "."}
        dot  == IF dots = {} THEN 0
                ELSE CHOOSE i \in dots : \A j \in dots : j <= i
    IN  IF dot > 0
        THEN [first |-> SubSeq(m, 1, dot - 1), rest |-> From(m, dot + 1)]
        ELSE [first |-> m, rest |-> <<>>]

\* Metric.Split: split immediately following the first dot
Split(m) ==
    LET dot == IndexOf(m, ".")
    IN  IF dot > 0
        THEN [first |-> SubSeq(m, 1, dot - 1), rest |-> From(m, dot + 1)]
        ELSE [first |-> m, rest |-> <<>>]

\* const maxPatterns of braceExpand
maxPatterns == 100

\* The scanning loop of braceExpand over m from position i on.  The result
\* is the loop's variables when it ends: nil is the early "return nil".
RECURSIVE braceScan(_, _, _, _, _, _, _)
braceScan(m, i, escape, inbrace, start, prefix, segments) ==
    IF i > Len(m)
    THEN [nil |-> FALSE, inbrace |-> inbrace, segments |-> segments,
          suffix |-> <<>>]
    ELSE IF escape
    THEN braceScan(m, i + 1, FALSE, inbrace, start, prefix, segments)
    ELSE IF m[i] = "\\"
    THEN braceScan(m, i + 1, TRUE, inbrace, start, prefix, segments)
    ELSE IF m[i] = "{"
    THEN IF inbrace
         THEN [nil |-> TRUE, inbrace |-> inbrace, segments |-> segments,
               suffix |-> <<>>]
         ELSE braceScan(m, i + 1, FALSE, TRUE, i + 1, SubSeq(m, 1, i - 1),
                        segments)
    ELSE IF m[i] = ","
    THEN IF ~inbrace
         THEN braceScan(m, i + 1, FALSE, inbrace, start, prefix, segments)
         ELSE braceScan(m, i + 1, FALSE, inbrace, i + 1, prefix,
                        Append(segments, prefix \o SubSeq(m, start, i - 1)))
    ELSE IF m[i] = "}"
    THEN [nil |-> FALSE, inbrace |-> FALSE,
          segments |-> Append(segments, prefix \o SubSeq(m, start, i - 1)),
          suffix |-> From(m, i + 1)]
    ELSE braceScan(m, i + 1, FALSE, inbrace, start, prefix, segments)

\* crossAppend with the loops exchanged: segments outside, addto inside
RECURSIVE crossAppendSegmentsFirst(_, _)
crossAppendSegmentsFirst(addto, segments) ==
    IF segments = <<>> THEN <<>>
    ELSE [j \in 1..Len(addto) |-> addto[j] \o Head(segments)]
         \o crossAppendSegmentsFirst(addto, Tail(segments))

\* result = pfx+seg for every pfx of addto (outer loop), seg of segments
RECURSIVE crossAppend(_, _)
crossAppend(addto, segments) ==
    IF addto = <<>> THEN <<>>
    ELSE [j \in 1..Len(segments) |-> Head(addto) \o segments[j]]
         \o crossAppend(Tail(addto), segments)

\* braceExpand that keeps the text of a group it cannot expand
RECURSIVE braceExpandKeeping(_, _, _)
braceExpandKeeping(m, depth, addto) ==
    IF Len(m) = 0 THEN addto
    ELSE LET add == IF Len(addto) = 0 THEN <<(<<>>)>> ELSE addto
             sc  == braceScan(m, 1, FALSE, FALSE, 1, <<>>, <<>>)
         IN  IF sc.nil \/ sc.inbrace \/ Len(sc.segments) = 0
             THEN [j \in 1..Len(add) |-> add[j] \o m]
             ELSE braceExpandKeeping(sc.suffix, depth + 1,
                                     crossAppend(add, sc.segments))

\* Metric.braceExpand(depth, addto); nil is the empty list
RECURSIVE braceExpand(_, _, _)
braceExpand(m, depth, addto) ==
    IF Len(m) = 0 THEN addto
    ELSE LET add == IF Len(addto) = 0 THEN <<(<<>>)>> ELSE addto
             sc  == IF depth > maxPatterns
                    THEN [nil |-> FALSE, inbrace |-> FALSE,
                          segments |-> <<>>, suffix |-> <<>>]
                    ELSE braceScan(m, 1, FALSE, FALSE, 1, <<>>, <<>>)
         IN  IF sc.nil \/ sc.inbrace THEN <<>>
             ELSE IF Len(sc.segments) = 0
             THEN [j \in 1..Len(add) |-> add[j] \o m]
             ELSE braceExpand(sc.suffix, depth + 1,
                              crossAppend(add, sc.segments))

\* Metric.Expand
Expand(m) == braceExpand(m, 0, <<>>)


\* getEsc of path.Match: one (possibly escaped) character of a class.
\* ok is FALSE on ErrBadPattern; rest is the chunk after the character.
getEsc(chunk) ==
    IF Len(chunk) = 0 \/ chunk[1] = "-" \/ chunk[1] = "]"
    THEN [ok |-> FALSE, r |-> "", rest |-> <<>>]
    ELSE LET c == IF chunk[1] = "\\" THEN Tail(chunk) ELSE chunk
         IN  IF Len(c) = 0 \/ Len(c) = 1
             THEN [ok |-> FALSE, r |-> "", rest |-> <<>>]
             ELSE [ok |-> TRUE, r |-> c[1], rest |-> Tail(c)]

\* the range loop of a character class of path.Match: chunk follows "[" and
\* the optional "^"; r is the character of the name being matched
RECURSIVE classRanges(_, _, _, _)
classRanges(chunk, r, nrange, match) ==
    IF Len(chunk) > 0 /\ chunk[1] = "]" /\ nrange > 0
    THEN [ok |-> TRUE, match |-> match, rest |-> Tail(chunk)]
    ELSE LET lo == getEsc(chunk)
         IN  IF ~lo.ok THEN [ok |-> FALSE, match |-> FALSE, rest |-> <<>>]
             ELSE IF lo.rest[1] = "-"
             THEN LET hi == getEsc(Tail(lo.rest))
                  IN  IF ~hi.ok
                      THEN [ok |-> FALSE, match |-> FALSE, rest |-> <<>>]
                      ELSE classRanges(hi.rest, r, nrange + 1,
                               match \/ (Ord(lo.r) <= Ord(r)
                                         /\ Ord(r) <= Ord(hi.r)))
             ELSE classRanges(lo.rest, r, nrange + 1, match \/ lo.r = r)

\* path.Match(pat, s) with an error reported as no match, which is all that
\* Metric.match keeps of it: "*" any run without "/", "?" one character,
\* "[...]" a class, "\\" escapes one character
RECURSIVE pathMatch(_, _)
pathMatch(pat, s) ==
    IF Len(pat) = 0 THEN Len(s) = 0
    ELSE IF pat[1] = "*"
    THEN \E k \in 0..Len(s) :
            /\ \A j \in 1..k : s[j] # "/"
            /\ pathMatch(Tail(pat), From(s, k + 1))
    ELSE IF Len(s) = 0 THEN FALSE
    ELSE IF pat[1] = "?"
    THEN s[1] # "/" /\ pathMatch(Tail(pat), Tail(s))
    ELSE IF pat[1] = "["
    THEN LET negated == Len(pat) > 1 /\ pat[2] = "^"
             cls == classRanges(IF negated THEN From(pat, 3) ELSE Tail(pat),
                                s[1], 0, FALSE)
         IN  /\ cls.ok
             /\ cls.match # negated
             /\ pathMatch(cls.rest, Tail(s))
    ELSE IF pat[1] = "\\"
    THEN /\ Len(pat) > 1
         /\ pat[2] = s[1]
         /\ pathMatch(From(pat, 3), Tail(s))
    ELSE pat[1] = s[1] /\ pathMatch(Tail(pat), Tail(s))

\* Metric.match: an error of path.Match is no match
match(pat, s) == pathMatch(pat, s)

\* Match that tries the first expansion of m only
MatchFirstVariant(m, name) ==
    LET pats == Expand(m)
    IN  Len(pats) > 0 /\ match(pats[1], name)

\* Metric.Match: true when some expansion of m matches name
Match(m, name) ==
    LET pats == Expand(m)
    IN  \E i \in 1..Len(pats) : match(pats[i], name)

(***************************************************************************)
(* package query: lexer                                                    *)
(***************************************************************************)

\* what lexer.next returns at the end of the input
eof == "eof"

\* the character lexer.next would return at offset pos (0-based, as in Go)
peekAt(inp, pos) == IF pos >= Len(inp) THEN eof ELSE inp[pos + 1]

\* lexer.dot: input[start:pos]
dot(inp, start, pos) == SubSeq(inp, start + 1, pos)

\* lexer.acceptRun: the offset after the run of characters of valid from pos
RECURSIVE acceptRun(_, _, _)
acceptRun(inp, pos, valid) ==
    IF peekAt(inp, pos) \in valid THEN acceptRun(inp, pos + 1, valid) ELSE pos

\* lexer.emit: the item appended to the items sent so far
emit(items, typ, inp, start, pos) ==
    Append(items, [typ |-> typ, val |-> dot(inp, start, pos)])

\* lexer.errorf: an error item ends the scan
errorf(items, msg) == Append(items, [typ |-> "ERROR", val |-> msg])

RECURSIVE lexClear(_, _, _, _)
RECURSIVE lexNumber(_, _, _, _)
RECURSIVE lexName(_, _, _, _)
RECURSIVE lexMetric(_, _, _, _)
RECURSIVE lexCurlyBrace(_, _, _, _)
RECURSIVE lexSquareBracket(_, _, _, _)
RECURSIVE lexQuote(_, _, _, _)
RECURSIVE lexQuoteBody(_, _, _, _, _)

\* starting state, scan for any expression
lexClear(inp, start, pos, items) ==
    LET r == peekAt(inp, pos)
    IN  IF r \in charNumeric \cup {"+", "-"}
        THEN lexNumber(inp, start, pos, items)
        ELSE IF r \in charWhitespace
        THEN lexClear(inp, pos + 1, pos + 1, items)
        ELSE IF r \in charIdentifier
        THEN lexName(inp, start, pos, items)
        ELSE IF r \in charGlob
        THEN lexMetric(inp, start, pos, items)
        ELSE IF r \in charDelim
        THEN lexClear(inp, pos + 1, pos + 1,
                      emit(items, r, inp, start, pos + 1))
        ELSE IF r \in charQuote
        THEN lexQuote(inp, start, pos, items)
        ELSE IF r = eof
        THEN items
        ELSE errorf(items, "unexpected character")

\* optional sign, digits, optional fraction
lexNumber(inp, start, pos, items) ==
    LET p1 == IF peekAt(inp, pos) \in {"+", "-"} THEN pos + 1 ELSE pos
        p2 == acceptRun(inp, p1, charNumeric)
        p3 == IF peekAt(inp, p2) = "."
              THEN acceptRun(inp, p2 + 1, charNumeric)
              ELSE p2
        r  == peekAt(inp, p3)
    IN  IF r \in charWhitespace \cup charDelim
        THEN lexClear(inp, p3, p3, emit(items, "NUMBER", inp, start, p3))
        ELSE IF r \in charAlphanum \cup charGlob \cup {"."}
        THEN lexMetric(inp, start, p3, items)
        ELSE errorf(items, "unexpected character in number")

\* a simple word, such as a function name
lexName(inp, start, pos, items) ==
    LET p1 == acceptRun(inp, pos, charIdentifier)
        r  == peekAt(inp, p1)
    IN  IF r \in charWhitespace \cup charDelim
        THEN lexClear(inp, p1, p1, emit(items, "WORD", inp, start, p1))
        ELSE IF r \in charGlob \cup charDot
        THEN lexMetric(inp, start, p1 + 1, items)
        ELSE errorf(items, "unexpected character in word")

\* a metric name: words, dots and glob patterns
lexMetric(inp, start, pos, items) ==
    LET p1 == acceptRun(inp, pos, charIdentifier \cup {"*", "."})
        r  == peekAt(inp, p1)
    IN  IF r = "{"
        THEN lexCurlyBrace(inp, start, p1 + 1, items)
        ELSE IF r = "["
        THEN lexSquareBracket(inp, start, p1 + 1, items)
        ELSE IF r \in charWhitespace \cup charDelim \/ r = eof
        THEN lexClear(inp, p1, p1, emit(items, "METRIC", inp, start, p1))
        ELSE errorf(items, "unexpected character in metric")

\* consume {x,y,z}; the opening brace is already consumed
lexCurlyBrace(inp, start, pos, items) ==
    LET r == peekAt(inp, pos)
    IN  IF r = "\\"
        THEN IF peekAt(inp, pos + 1) # eof
             THEN lexCurlyBrace(inp, start, pos + 2, items)
             ELSE errorf(items, "unterminated brace list")
        ELSE IF r = eof
        THEN errorf(items, "unterminated brace list")
        ELSE IF r = "}"
        THEN lexMetric(inp, start, pos + 1, items)
        ELSE lexCurlyBrace(inp, start, pos + 1, items)

\* consume [chars]; the opening bracket is already consumed
lexSquareBracket(inp, start, pos, items) ==
    LET r == peekAt(inp, pos)
    IN  IF r = "\\"
        THEN IF peekAt(inp, pos + 1) # eof
             THEN lexSquareBracket(inp, start, pos + 2, items)
             ELSE errorf(items, "unterminated '[' glob")
        ELSE IF r = eof
        THEN errorf(items, "unterminated '[' glob")
        ELSE IF r = "]"
        THEN lexMetric(inp, start, pos + 1, items)
        ELSE lexSquareBracket(inp, start, pos + 1, items)

\* the loop of lexQuote after the opening quote
lexQuoteBody(inp, start, pos, items, quoteChar) ==
    LET r == peekAt(inp, pos)
    IN  IF r = "\\"
        THEN IF peekAt(inp, pos + 1) # eof
             THEN lexQuoteBody(inp, start, pos + 2, items, quoteChar)
             ELSE errorf(items, "unterminated string")
        ELSE IF r = eof
        THEN errorf(items, "unterminated string")
        ELSE IF r = quoteChar
        THEN lexClear(inp, pos + 1, pos + 1,
                      emit(items, "STRING", inp, start, pos + 1))
        ELSE lexQuoteBody(inp, start, pos + 1, items, quoteChar)

\* a quoted string, emitted from after its opening quote
lexQuoteWithoutQuote(inp, start, pos, items) ==
    lexQuoteBody(inp, pos + 1, pos + 1, items, peekAt(inp, pos))

\* a quoted string, emitted with its quotes
lexQuote(inp, start, pos, items) ==
    lexQuoteBody(inp, start, pos + 1, items, peekAt(inp, pos))

\* lex(input) and lexer.run: every item the lexer sends before it closes
\* its channel
lex(input) == lexClear(input, 0, 0, <<>>)

(***************************************************************************)
(* package query: parser and AST                                           *)
(***************************************************************************)

\* the AST nodes: Metric and Value hold their text, Func its name and args
MetricNode(text) == [kind |-> "Metric", text |-> text]

ValueNode(text) == [kind |-> "Value", text |-> text]

FuncNode(name, args) == [kind |-> "Func", name |-> name, args |-> args]

\* the type of token i, "$end" after the last one (lexer.Lex returns 0)
tokTyp(toks, i) == IF i > Len(toks) THEN "$end" ELSE toks[i].typ

noParse == [ok |-> FALSE, expr |-> ValueNode(<<>>), next |-> 0]

RECURSIVE parseQuery(_, _)
RECURSIVE parseExpr(_, _)
RECURSIVE parseArgList(_, _, _)

\* Query := Metric | Func ;  Func := WORD '(' ArgList ')'
parseQuery(toks, i) ==
    IF tokTyp(toks, i) = "METRIC"
    THEN [ok |-> TRUE, expr |-> MetricNode(toks[i].val), next |-> i + 1]
    ELSE IF tokTyp(toks, i) = "WORD" /\ tokTyp(toks, i + 1) = "("
    THEN LET al == IF tokTyp(toks, i + 2) \in {")", ","}
                   THEN parseArgList(toks, i + 2, <<>>)
                   ELSE LET e == parseExpr(toks, i + 2)
                        IN  IF e.ok
                            THEN parseArgList(toks, e.next, <<e.expr>>)
                            ELSE noParse
         IN  IF al.ok
             THEN [ok |-> TRUE, expr |-> FuncNode(toks[i].val, al.expr),
                   next |-> al.next]
             ELSE noParse
    ELSE noParse

\* Expr := Query | STRING | NUMBER
parseExpr(toks, i) ==
    IF tokTyp(toks, i) \in {"STRING", "NUMBER"}
    THEN [ok |-> TRUE, expr |-> ValueNode(toks[i].val), next |-> i + 1]
    ELSE parseQuery(toks, i)

\* ArgList := empty | Expr | ArgList ',' Expr, from the point where args
\* are reduced: a ')' ends the list, a ',' takes one more Expr
parseArgList(toks, i, args) ==
    IF tokTyp(toks, i) = ")"
    THEN [ok |-> TRUE, expr |-> args, next |-> i + 1]
    ELSE IF tokTyp(toks, i) = ","
    THEN LET e == parseExpr(toks, i + 1)
         IN  IF e.ok
             THEN parseArgList(toks, e.next, Append(args, e.expr))
             ELSE noParse
    ELSE noParse

\* a Parse that returns the first complete query and ignores what follows
ParsePrefix(query) ==
    IF parseQuery(lex(query), 1).ok
    THEN [ok |-> TRUE, expr |-> parseQuery(lex(query), 1).expr]
    ELSE [ok |-> FALSE, expr |-> ValueNode(<<>>)]

isToken(it) == it.typ # "ERROR"

\* a Parse that passes over the error items of the lexer
yyResultOfTokens(toks) ==
    LET q == parseQuery(SelectSeq(toks, isToken), 1)
    IN  IF q.ok /\ q.next = Len(SelectSeq(toks, isToken)) + 1
        THEN [ok |-> TRUE, expr |-> q.expr]
        ELSE [ok |-> FALSE, expr |-> ValueNode(<<>>)]

\* what Parse makes of the tokens yyParse was given: l.result when yyParse
\* returned 0 and l.Err() is nil
yyResult(toks) ==
    LET q == parseQuery(toks, 1)
    IN  IF q.ok /\ q.next = Len(toks) + 1
        THEN [ok |-> TRUE, expr |-> q.expr]
        ELSE [ok |-> FALSE, expr |-> ValueNode(<<>>)]

RECURSIVE yyError(_, _, _, _)

\* the parser of the grammar, token by token: TRUE when a token from the
\* i-th on is one the grammar cannot take where it stands (the error item
\* of the lexer is such a token everywhere), so that yyParse returns 1
\* without asking for the next.  depth counts the open argument lists.
yyError(toks, i, depth, expect) ==
    IF i > Len(toks)
    THEN FALSE
    ELSE LET t == toks[i].typ
             afterExpr == IF depth = 0 THEN "end" ELSE "sep"
             afterList == IF depth = 1 THEN "end" ELSE "sep"
         IN  IF expect \in {"query", "first", "expr"} /\ t = "WORD"
             THEN yyError(toks, i + 1, depth, "paren")
             ELSE IF expect \in {"query", "first", "expr"} /\ t = "METRIC"
             THEN yyError(toks, i + 1, depth, afterExpr)
             ELSE IF expect \in {"first", "expr"} /\ t \in {"STRING", "NUMBER"}
             THEN yyError(toks, i + 1, depth, afterExpr)
             ELSE IF expect = "paren" /\ t = "("
             THEN yyError(toks, i + 1, depth + 1, "first")
             ELSE IF expect \in {"first", "sep"} /\ t = ","
             THEN yyError(toks, i + 1, depth, "expr")
             ELSE IF expect \in {"first", "sep"} /\ t = ")"
             THEN yyError(toks, i + 1, depth - 1, afterList)
             ELSE TRUE

\* Parse: a Query, or an error when the lexer sent an error item, the
\* grammar rejects the tokens, or input is left after a complete query
Parse(query) == yyResult(lex(query))

\* const maxDepth of walk and marshalExpr
maxDepth == 200

\* walk, collecting what Query.Metrics collects: the handle of every Metric
\* node, in traversal order.  A handle is the node's path of argument
\* indices from the root.
RECURSIVE walkMetrics(_, _, _)
RECURSIVE walkArgs(_, _, _, _)
walkMetrics(e, depth, path) ==
    IF depth > maxDepth THEN <<>>
    ELSE IF e.kind = "Func" THEN walkArgs(e.args, 1, depth + 1, path)
    ELSE IF e.kind = "Metric" THEN <<path>>
    ELSE <<>>

\* a walk that visits the arguments from the last to the first
walkArgsBackwards(args, i, depth, path) ==
    IF i > Len(args) THEN <<>>
    ELSE walkArgs(args, i + 1, depth, path)
         \o walkMetrics(args[i], depth, Append(path, i))

walkArgs(args, i, depth, path) ==
    IF i > Len(args) THEN <<>>
    ELSE walkMetrics(args[i], depth, Append(path, i))
         \o walkArgs(args, i + 1, depth, path)

\* Query.Metrics
Metrics(q) == walkMetrics(q.expr, 0, <<>>)

\* *handle: the text of the Metric a handle points to
RECURSIVE Deref(_, _)
Deref(e, path) ==
    IF path = <<>> THEN e.text ELSE Deref(e.args[Head(path)], Tail(path))

RECURSIVE Assign(_, _, _)

\* an assignment to a copy of the node: the tree keeps its metric
AssignToCopy(e, path, text) == e

\* *handle = text
Assign(e, path, text) ==
    IF path = <<>> THEN MetricNode(text)
    ELSE [e EXCEPT !.args[Head(path)] = Assign(@, Tail(path), text)]

\* strings.Join of the rendered arguments with ", "
RECURSIVE marshalExpr(_, _)
RECURSIVE marshalArgs(_, _, _)
marshalExpr(e, depth) ==
    IF depth > maxDepth THEN <<>>
    ELSE IF e.kind = "Func"
    THEN e.name \o <<"(">> \o marshalArgs(e.args, 1, depth + 1) \o <<")">>
    ELSE e.text

marshalArgs(args, i, depth) ==
    IF i > Len(args) THEN <<>>
    ELSE marshalExpr(args[i], depth)
         \o (IF i < Len(args) THEN <<",", " ">> ELSE <<>>)
         \o marshalArgs(args, i + 1, depth)

\* Query.String: marshalExpr(q, 0), which descends into q.Expr at depth 1
String(q) == marshalExpr(q.expr, 1)

(***************************************************************************)
(* package backend: configuration and inputs                               *)
(***************************************************************************)

\* the prefixes of the mappings given to NewMux (those of the tests)
Servers == {"dev", "stage", "prod"}

\* server.name as characters
name(srv) ==
    CASE srv = "dev"   -> <<"d", "e", "v">>
      [] srv = "stage" -> <<"s", "t", "a", "g", "e">>
      [] srv = "prod"  -> <<"p", "r", "o", "d">>

\* server.dest, the parsed URL of the mapping: the path as its segments,
\* the raw query as its parameters
dest(srv) ==
    CASE srv = "dev" ->
           [scheme |-> "http", host |-> "dev-graphite", path |-> <<>>,
            rawQuery |-> <<>>]
      [] srv = "stage" ->
           [scheme |-> "https", host |-> "stage-graphite", path |-> <<>>,
            rawQuery |-> <<>>]
      [] srv = "prod" ->
           [scheme |-> "https", host |-> "graphite",
            path |-> <<"graphite">>, rawQuery |-> <<>>]

\* the server listening at a host; "none" when there is none
serverAt(host) ==
    IF \E srv \in Servers : dest(srv).host = host
    THEN CHOOSE srv \in Servers : dest(srv).host = host
    ELSE "none"

\* the target expressions a client may send
tDevA == <<"d", "e", "v", ".", "a">>

tProdB == <<"p", "r", "o", "d", ".", "b">>

tSum == <<"s", "u", "m", "(", "d", "e", "v", ".", "a", ",", " ", "p", "r", "o", "d", ".", "b", ")">>

tBrace == <<"{", "d", "e", "v", ",", "p", "r", "o", "d", "}", ".", "c">>

tNone == <<"q", "a", ".", "a">>

tBad == <<"d", "e", "v", "(">>

tStar == <<"*">>

tEmpty == <<>>

\* the targets of /render requests: none of them matches stage, so that a
\* request to the Mux is dispatched to at most two backends
TargetPool == {tDevA, tProdB, tSum, tBrace, tNone, tBad}

\* the query parameters of /metrics requests
QueryPool == {tDevA, tBrace, tNone, tBad, tStar, tEmpty, tSum}

\* the most target parameters of one /render request
MaxTargets == 2

\* the sequences over S of length at most n
SeqUpTo(S, n) == UNION {[1..k -> S] : k \in 0..n}

\* the calls the model makes: the three handlers of the Mux, and
\* multi.ProxyRequests with a map of requests keyed by backend name
Requests ==
    [api : {"render"}, method : {"GET", "POST"},
     targets : SeqUpTo(TargetPool, MaxTargets), names : {{}}]
    \cup [api : {"metrics", "expand"}, method : {"GET", "POST"},
          targets : {<<q>> : q \in QueryPool}, names : {{}}]
    \cup [api : {"ProxyRequests"}, method : {"GET"},
          targets : {<<>>}, names : SUBSET Servers]

(***************************************************************************)
(* package backend: the pure parts of the handlers                         *)
(***************************************************************************)

\* a loop that matches the whole metric, not its first component
RECURSIVE matchMetricsWhole(_, _, _)
matchMetricsWhole(q, srv, i) ==
    IF i > Len(Metrics(q)) THEN <<>>
    ELSE IF Match(Deref(q.expr, Metrics(q)[i]), name(srv))
    THEN <<srv>>
    ELSE matchMetricsWhole(q, srv, i + 1)

\* the inner loop of matchingServers for one server: the server once, at
\* the first metric whose prefix matches its name (the break), or nothing
RECURSIVE matchMetrics(_, _, _)
matchMetrics(q, srv, i) ==
    IF i > Len(Metrics(q)) THEN <<>>
    ELSE IF Match(Split(Deref(q.expr, Metrics(q)[i])).first, name(srv))
    THEN <<srv>>
    ELSE matchMetrics(q, srv, i + 1)

\* the outer loop of matchingServers over m.servers from the k-th server of
\* the iteration order on
RECURSIVE matchingFrom(_, _, _)
matchingFrom(q, order, k) ==
    IF k > Len(order) THEN <<>>
    ELSE matchMetrics(q, order[k], 1) \o matchingFrom(q, order, k + 1)

\* Mux.matchingServers: the servers that match a query, in the order in
\* which the map m.servers is iterated
matchingServers(q, order) == matchingFrom(q, order, 1)

\* the orders in which a map over the servers can be iterated
Orders ==
    {o \in [1..Cardinality(Servers) -> Servers] :
        \A i, j \in 1..Cardinality(Servers) : i # j => o[i] # o[j]}

\* one fixed order, where the order does not show in the result
someOrder == CHOOSE o \in Orders : TRUE

\* stripPrefix: every handle of q.Metrics() gets the rest of its Split
RECURSIVE stripFrom(_, _, _)
stripFrom(e, handles, i) ==
    IF i > Len(handles) THEN e
    ELSE stripFrom(Assign(e, handles[i], Split(Deref(e, handles[i])).rest),
                   handles, i + 1)

stripPrefix(q) == [q EXCEPT !.expr = stripFrom(q.expr, Metrics(q), 1)]

\* a parseQueries that leaves out the targets that do not parse
parseQueriesSkipping(targets) ==
    [ok |-> TRUE,
     queries |-> LET good == SelectSeq(targets, LAMBDA t : Parse(t).ok)
                 IN  [i \in 1..Len(good) |-> Parse(good[i])]]

\* parseQueries: the queries of the target expressions, or an error at the
\* first one that does not parse
parseQueries(targets) ==
    IF \E i \in 1..Len(targets) : ~Parse(targets[i]).ok
    THEN [ok |-> FALSE, queries |-> <<>>]
    ELSE [ok |-> TRUE, queries |-> [i \in 1..Len(targets) |-> Parse(targets[i])]]

\* the loop of Mux.render that fills the buckets, from query i on: a bucket
\* holds the queries (as indices into queries) routed to its server
RECURSIVE fillBuckets(_, _, _)
RECURSIVE addToBuckets(_, _, _, _)
RECURSIVE addToBucketsInFront(_, _, _, _)
\* addToBuckets that puts a query in front of those of its bucket
addToBucketsInFront(b, srvs, k, i) ==
    IF k > Len(srvs) THEN b
    ELSE addToBucketsInFront([b EXCEPT ![srvs[k]] = <<i>> \o @], srvs,
                             k + 1, i)

addToBuckets(b, srvs, k, i) ==
    IF k > Len(srvs) THEN b
    ELSE addToBuckets([b EXCEPT ![srvs[k]] = Append(@, i)], srvs, k + 1, i)

fillBuckets(b, qs, i) ==
    IF i > Len(qs) THEN b
    ELSE fillBuckets(addToBuckets(b, matchingServers(qs[i], someOrder), 1, i),
                     qs, i + 1)

\* url.Values.Encode of a form that holds the given values of one key
Encode(key, vals) == [i \in 1..Len(vals) |-> [key |-> key, val |-> vals[i]]]

\* the values of a key in a raw query
valuesOf(rawQuery, key) ==
    LET sel == SelectSeq(rawQuery, LAMBDA p : p.key = key)
    IN  [i \in 1..Len(sel) |-> sel[i].val]

\* the RawQuery of the Director of NewSingleHostReverseProxy: the two
\* queries, joined with "&" when both are non-empty
joinQuery(targetQuery, rawQuery) == targetQuery \o rawQuery

\* singleJoiningSlash on paths held as their segments
singleJoiningSlash(a, b) == a \o b

\* the zero value of response, and of the *http.Response in it
nilResponse ==
    [isNil |-> TRUE, StatusCode |-> 0, decodable |-> FALSE,
     body |-> <<>>, from |-> "none"]

zeroResponse == [err |-> FALSE, server |-> "none", Response |-> nilResponse]

(***************************************************************************)
(* The backends                                                            *)
(***************************************************************************)

\* The list a backend answers with, per endpoint: render targets, metric
\* nodes or expanded names.  from is not data of the program: it records
\* the backend that produced the entry.
listOf(api, srv) ==
    CASE api = "render" /\ srv = "prod" ->
           <<[target |-> <<"a">>, datapoints |-> <<4>>, from |-> srv],
             [target |-> <<"b">>, datapoints |-> <<5, 6>>, from |-> srv]>>
      [] api = "render" ->
           <<[target |-> <<"a">>, datapoints |-> <<1, 2>>, from |-> srv],
             [target |-> <<"b">>, datapoints |-> <<3>>, from |-> srv]>>
      [] api \in {"metrics", "Proxy"} ->
           <<[is_leaf |-> 0, name |-> <<"a">>, path |-> <<"a", ".">>,
              from |-> srv],
             [is_leaf |-> 1, name |-> <<"b">>, path |-> <<"b">>,
              from |-> srv]>>
      [] api = "expand" ->
           <<[path |-> <<"a">>, from |-> srv], [path |-> <<"b">>, from |-> srv]>>
      [] OTHER ->
           <<[target |-> <<"a">>, datapoints |-> <<1, 2>>, from |-> srv]>>

\* A 200 of a render backend whose body is well-formed JSON with a value of
\* a type that renderTarget does not take: Decode returns an error after it
\* has decoded the elements, the datapoints among them
mistyped(srv) ==
    [err |-> FALSE,
     Response |-> [isNil |-> FALSE, StatusCode |-> 200, decodable |-> FALSE,
                   body |-> listOf("render", srv), from |-> srv]]

\* What a call to the backend at a host can return: a transport error and
\* no response, a response with a status other than 200 (its body a list
\* all the same), a 200 whose body does not decode, a 200 with an empty list, a 200 with the backend's list.
\* A host at which no backend listens gives a transport error.
Outcomes(api, host) ==
    IF serverAt(host) = "none"
    THEN {[err |-> TRUE, Response |-> nilResponse]}
    ELSE {[err |-> TRUE, Response |-> nilResponse],
          [err |-> FALSE,
           Response |-> [isNil |-> FALSE, StatusCode |-> 500,
                         decodable |-> TRUE,
                         body |-> listOf(api, serverAt(host)),
                         from |-> serverAt(host)]],
          [err |-> FALSE,
           Response |-> [isNil |-> FALSE, StatusCode |-> 200,
                         decodable |-> FALSE, body |-> <<>>,
                         from |-> serverAt(host)]],
          [err |-> FALSE,
           Response |-> [isNil |-> FALSE, StatusCode |-> 200,
                         decodable |-> TRUE, body |-> <<>>,
                         from |-> serverAt(host)]],
          [err |-> FALSE,
           Response |-> [isNil |-> FALSE, StatusCode |-> 200,
                         decodable |-> TRUE,
                         body |-> listOf(api, serverAt(host)),
                         from |-> serverAt(host)]]}
         \cup (IF api = "render" THEN {mistyped(serverAt(host))} ELSE {})

(***************************************************************************)
(* State                                                                   *)
(***************************************************************************)

VARIABLES
    req,        \* the call: the incoming request, or the ProxyRequests map
    Body,       \* r.Body, the one body that r and all its copies share
    hpc,        \* where the handler is: "accept", "range", "done"
    out,        \* what the handler wrote to the client
    queries,    \* the parsed queries of a /render request
    buckets,    \* server -> the queries (indices) of its bucket
    url,        \* the one url.URL that r and all its copies point to
    requests,   \* server -> the request copy made for it
    wpc,        \* server -> where its worker is
    sent,       \* server -> the request its worker handed to the transport
    wrsp,       \* server -> what the worker's call returned
    wg,         \* the WaitGroup counter
    responses,  \* the result channel's buffer
    closed,     \* how many times the result channel was closed
    tpc,        \* where the terminator goroutine is
    result,     \* the merged list
    rsp,        \* the handler's loop variable
    placed,     \* server -> the number of entries its worker has sent
    arrived,    \* the servers whose entries the handler has received, in
                \* the order of their arrival
    Chunk,      \* the handler's slice chunk of Mux.render, per element: the
                \* entries of result whose Datapoints share its buffer
    qinput,     \* package query: the string given to Parse, or the Metric
                \* a method is called on
    mcall,      \* the method called on the Metric, and what it returned
    qitems,     \* the items the lexer has sent
    qresult,    \* lexer.result, the Query that Parse returns, and ok
    qbefore,    \* the Query as Parse returned it, before an assignment
    qassigned,  \* the assignment made through a handle of Metrics()
    qstring,    \* what String() returned
    qpc,        \* where the caller of package query is
    lrun,       \* the goroutine of l.run() and the channel l.items: where
                \* the goroutine is, the items it has sent, the closes
    nest,       \* walk and marshalExpr on a nested Query, call by call:
                \* the Query, the call stack, the handles collected and
                \* the text written
    pipe        \* the pipeListener of internal/mock and its callers

vars ==
    <<req, Body, hpc, out, queries, buckets, url, requests, wpc, sent, wrsp,
      wg, responses, closed, tpc, result, rsp, placed, arrived, Chunk, qinput,
      mcall, qitems, qresult, qbefore, qassigned, qstring, qpc, lrun, nest,
      pipe>>

\* the variables of the calls made apart from a handler: those of package
\* query, and the pipeListener
queryVars ==
    <<qinput, mcall, qitems, qresult, qbefore, qassigned, qstring, qpc,
      lrun, nest, pipe>>

\* the variables of a handler and its dispatch
muxVars ==
    <<req, Body, hpc, out, queries, buckets, url, requests, wpc, sent, wrsp,
      wg, responses, closed, tpc, result, rsp, placed, arrived,
                   Chunk>>

noOut == [kind |-> "none", status |-> 0, body |-> <<>>, fwd |-> nilResponse]

noRequest == [made |-> FALSE, method |-> "", form |-> <<>>, body |-> <<>>]

noSent ==
    [done |-> FALSE, scheme |-> "", host |-> "", path |-> <<>>,
     rawQuery |-> <<>>, method |-> "", body |-> <<>>]

\* the URL of the incoming request: a GET carries its form in the query
incomingURL(r) ==
    [scheme |-> "", host |-> "",
     path |-> IF r.api = "render" THEN <<"render">>
              ELSE IF r.api = "metrics" THEN <<"metrics">>
              ELSE IF r.api = "expand" THEN <<"metrics", "expand">>
              ELSE IF r.api = "Proxy" THEN <<"metrics", "find">>
              ELSE <<>>,
     rawQuery |-> IF r.method # "GET" THEN <<>>
                  ELSE IF r.api = "render" THEN Encode("target", r.targets)
                  ELSE IF r.api \in {"metrics", "expand"}
                  THEN Encode("query", r.targets)
                  ELSE <<>>]

\* r.Body of the calls of the Mux and of ProxyRequests, which this model
\* does not read: the form of the request holds its parameters
nilBody ==
    [kind |-> "nil", data |-> <<>>, off |-> 0, ContentLength |-> 0,
     reads |-> 0]

\* The bodies multi.Proxy is called with: none; the stream of the client,
\* which can be read once; a stream whose read fails; a body that is an
\* io.ReaderAt.  reads counts the passes over the client's stream.
Bodies ==
    {nilBody,
     [kind |-> "stream", data |-> <<"x", "y">>, off |-> 0,
      ContentLength |-> 2, reads |-> 0],
     [kind |-> "broken", data |-> <<"x", "y">>, off |-> 0,
      ContentLength |-> 2, reads |-> 0],
     [kind |-> "ReaderAt", data |-> <<"x", "y">>, off |-> 0,
      ContentLength |-> 2, reads |-> 0]}

\* the most targets of one call of multi.Proxy
MaxProxyTargets == 2

\* the calls of multi.Proxy: the targets by name
ProxyCalls ==
    [api : {"Proxy"}, method : {"POST"}, targets : {<<>>},
     names : {n \in SUBSET Servers : Cardinality(n) <= MaxProxyTargets}]

\* no call of package query on its own is under way
noQuery == [ok |-> FALSE, expr |-> [kind |-> "Value", text |-> <<>>]]

noAssignment == [i |-> 0, s |-> <<>>]

noMethod == [fn |-> "none", name |-> <<>>, value |-> <<>>]

noRun == [pc |-> "none", todo |-> <<>>, sent |-> 0, closed |-> 0]

noNest ==
    [tree |-> [n |-> 0, shape |-> "none"], fn |-> "none", stack |-> <<>>,
     handles |-> <<>>, text |-> <<>>, returned |-> {}]

noPipe == [shutdown |-> 0, panicked |-> FALSE, calls |-> <<>>]

queryIdle ==
    /\ qinput = <<>>
    /\ mcall = noMethod
    /\ qitems = <<>>
    /\ qresult = noQuery
    /\ qbefore = noQuery
    /\ qassigned = noAssignment
    /\ qstring = <<>>
    /\ qpc = "none"
    /\ lrun = noRun
    /\ nest = noNest
    /\ pipe = noPipe

\* nothing is dispatched and nothing is written yet
noDispatch ==
    /\ out = noOut
    /\ queries = <<>>
    /\ buckets = [srv \in Servers |-> <<>>]
    /\ url = incomingURL(req)
    /\ requests = [srv \in Servers |-> noRequest]
    /\ wpc = [srv \in Servers |-> "none"]
    /\ sent = [srv \in Servers |-> noSent]
    /\ wrsp = [srv \in Servers |-> zeroResponse]
    /\ wg = 0
    /\ responses = <<>>
    /\ closed = 0
    /\ tpc = "none"
    /\ result = <<>>
    /\ rsp = zeroResponse
    /\ placed = [srv \in Servers |-> 0]
    /\ arrived = <<>>
    /\ Chunk = <<>>

Init ==
    /\ req \in Requests
    /\ Body = nilBody
    /\ queryIdle
    /\ hpc = "accept"
    /\ noDispatch

(***************************************************************************)
(* The dispatch: proxyMetrics, proxyRender, multi.ProxyRequests            *)
(***************************************************************************)

\* a channel one place short of the number of tasks
chanCapShort(n) == n - 1

\* make(chan response, len(servers)): the capacity of the result channel
\* for n tasks
chanCap(n) == n

\* a wait that already passes while one task is still counted
WaitShort(counter) == counter <= 1

\* wg.Wait(): the terminator passes when the counter is zero
Wait(counter) == counter = 0

\* the servers a dispatch was started for
Launched == {srv \in Servers : wpc[srv] # "none"}

\* proxyMetrics, proxyRender: one goroutine per server that first runs
\* srv.proxy, wg.Add(1) for each, and the goroutine that waits and closes
proxy(srvs) ==
    /\ wpc' = [srv \in Servers |-> IF srv \in srvs THEN "proxy" ELSE "none"]
    /\ wg' = Cardinality(srvs)
    /\ tpc' = "wait"
    /\ hpc' = "range"

\* the handler returns before any dispatch, having written o
return(o) ==
    /\ out' = o
    /\ hpc' = "done"
    /\ UNCHANGED <<wpc, wg, tpc>>

httperror(code) == [kind |-> "error", status |-> code, body |-> <<>>, fwd |-> nilResponse]

\* json.NewEncoder(w).Encode(result), with the implicit status 200
encoded(list) == [kind |-> "json", status |-> 200, body |-> list, fwd |-> nilResponse]

\* rsp.Write(w): the backend's response in wire format goes into the body
\* of the answer
written(r) == [kind |-> "forward", status |-> 200, body |-> <<>>, fwd |-> r]

(***************************************************************************)
(* Mux.render up to its range loop                                         *)
(***************************************************************************)

\* the target values of the request made for a bucket: q.String() of each
\* of its queries, which by then are stripped
bucketForm(qs, bucket) == [i \in 1..Len(bucket) |-> String(qs[bucket[i]])]

\* Mux.render once the targets are parsed: qs are the queries, b the
\* buckets filled from them, stripped the queries after stripPrefix
renderParsed(qs, b, stripped) ==
    /\ queries' = stripped
    /\ buckets' = b
    /\ requests' =
         [srv \in Servers |->
            IF b[srv] # <<>>
            THEN [made |-> TRUE, method |-> req.method,
                  form |-> Encode("target", bucketForm(stripped, b[srv])),
                  body |-> IF req.method = "POST"
                           THEN Encode("target", bucketForm(stripped, b[srv]))
                           ELSE <<>>]
            ELSE noRequest]
       \* every copy of r points to the URL of r: the RawQuery is that of
       \* the bucket the map iteration visits last
    /\ IF req.method = "POST" \/ \A srv \in Servers : b[srv] = <<>>
       THEN url' = url
       ELSE \E last \in {srv \in Servers : b[srv] # <<>>} :
              url' = [url EXCEPT !.rawQuery =
                        Encode("target", bucketForm(stripped, b[last]))]
    /\ proxy({srv \in Servers : b[srv] # <<>>})
    /\ out' = out

\* the loop of Mux.render over the queries: the buckets, and stripPrefix
renderQueries(qs) ==
    renderParsed(qs, fillBuckets([srv \in Servers |-> <<>>], qs, 1),
                 [i \in 1..Len(qs) |-> stripPrefix(qs[i])])

\* what Mux.render does with the result of parseQueries
renderTargets(parsed) ==
    IF ~parsed.ok
    THEN /\ return(httperror(400))
         /\ UNCHANGED <<queries, buckets, url, requests>>
    ELSE renderQueries(parsed.queries)

render ==
    /\ hpc = "accept"
    /\ req.api = "render"
    /\ renderTargets(parseQueries(req.targets))
    /\ UNCHANGED <<queryVars, req, Body, sent, wrsp, responses, closed, result, rsp, placed, arrived,
                   Chunk>>

(***************************************************************************)
(* Mux.metrics and Mux.expand up to their range loops                      *)
(***************************************************************************)

\* Mux.metricsInfo once the query is parsed to q, for an iteration order
\* of m.servers: the status of the error it answers with (0 if none), the
\* matching servers, whether the pattern has nothing after its prefix, and
\* that rest
metricsInfoOf(r, q, order) ==
    IF r.method # "GET"
    THEN [status |-> 405, servers |-> <<>>, toplevel |-> FALSE, rest |-> <<>>]
    ELSE IF ~q.ok \/ q.expr.kind # "Metric"
    THEN [status |-> 400, servers |-> <<>>, toplevel |-> FALSE, rest |-> <<>>]
    ELSE IF matchingServers(q, order) = <<>>
    THEN [status |-> 404, servers |-> <<>>, toplevel |-> FALSE, rest |-> <<>>]
    ELSE [status |-> 0, servers |-> matchingServers(q, order),
          toplevel |-> Split(q.expr.text).rest = <<>>,
          rest |-> Split(q.expr.text).rest]

\* Mux.metricsInfo: r.FormValue("query") is the first value of the
\* parameter, or the empty string
metricsInfo(r, order) ==
    metricsInfoOf(r, Parse(IF r.targets = <<>> THEN <<>> ELSE r.targets[1]),
                  order)

\* the node of a server in the answer to a toplevel /metrics request
toplevelNode(srv) ==
    [is_leaf |-> 0, name |-> name(srv), path |-> name(srv) \o <<".">>]

\* the entry of a server in the answer to a toplevel request: a node for
\* Mux.metrics, the name for Mux.expand
toplevelEntry(api, srv) ==
    IF api = "metrics" THEN toplevelNode(srv)
    ELSE [path |-> name(srv)]

\* what Mux.metrics and Mux.expand do with the result of metricsInfo
metricsOrExpand(info) ==
    /\ IF info.status # 0
       THEN /\ return(httperror(info.status))
            /\ UNCHANGED <<url, requests>>
       ELSE \* r.Form.Set("query", rest); r.URL.RawQuery = r.Form.Encode()
            /\ url' = [url EXCEPT !.rawQuery = Encode("query", <<info.rest>>)]
            /\ IF info.toplevel
               THEN /\ return(encoded([i \in 1..Len(info.servers) |->
                                   toplevelEntry(req.api, info.servers[i])]))
                    /\ UNCHANGED requests
               ELSE /\ requests' =
                         [srv \in Servers |->
                            IF \E i \in 1..Len(info.servers) : info.servers[i] = srv
                            THEN [made |-> TRUE, method |-> req.method,
                                  form |-> Encode("query", <<info.rest>>),
                                  body |-> <<>>]
                            ELSE noRequest]
                    /\ proxy({info.servers[i] : i \in 1..Len(info.servers)})
                    /\ out' = out
    /\ UNCHANGED <<queryVars, req, Body, queries, buckets, sent, wrsp, responses, closed,
                   result, rsp, placed, arrived,
                   Chunk>>

metrics ==
    /\ hpc = "accept"
    /\ req.api = "metrics"
    /\ \E order \in Orders : metricsOrExpand(metricsInfo(req, order))

expand ==
    /\ hpc = "accept"
    /\ req.api = "expand"
    /\ \E order \in Orders : metricsOrExpand(metricsInfo(req, order))

(***************************************************************************)
(* multi.ProxyRequests and the start of the loop that ranges over it       *)
(***************************************************************************)

ProxyRequests ==
    /\ hpc = "accept"
    /\ req.api = "ProxyRequests"
    /\ requests' = [srv \in Servers |->
                      IF srv \in req.names
                      THEN [made |-> TRUE, method |-> req.method,
                            form |-> <<>>, body |-> <<>>]
                      ELSE noRequest]
    /\ wpc' = [srv \in Servers |-> IF srv \in req.names THEN "Do" ELSE "none"]
    /\ wg' = Cardinality(req.names)
    /\ tpc' = "wait"
    /\ hpc' = "range"
    /\ UNCHANGED <<queryVars, req, Body, out, queries, buckets, url, sent, wrsp, responses,
                   closed, result, rsp, placed, arrived,
                   Chunk>>

(***************************************************************************)
(* The workers                                                             *)
(***************************************************************************)

\* srv.proxy, first half: r = copyReq(r); rev.Director(r).  The copy points
\* to the URL of r, and the Director writes through it.
Director(srv) ==
    /\ wpc[srv] = "proxy"
    /\ url' = [scheme |-> dest(srv).scheme,
               host |-> dest(srv).host,
               path |-> singleJoiningSlash(dest(srv).path, url.path),
               rawQuery |-> joinQuery(dest(srv).rawQuery, url.rawQuery)]
    /\ wpc' = [wpc EXCEPT ![srv] = "RoundTrip"]
    /\ UNCHANGED <<queryVars, req, Body, hpc, out, queries, buckets, requests, sent, wrsp, wg,
                   responses, closed, tpc, result, rsp, placed, arrived,
                   Chunk>>

\* srv.proxy, second half: tr.RoundTrip(r) sends what the URL holds by now
\* to the host it names, with the method and body of the worker's copy
RoundTrip(srv) ==
    /\ wpc[srv] = "RoundTrip"
    /\ sent' = [sent EXCEPT ![srv] =
                  [done |-> TRUE, scheme |-> url.scheme, host |-> url.host,
                   path |-> url.path, rawQuery |-> url.rawQuery,
                   method |-> requests[srv].method,
                   body |-> requests[srv].body]]
    /\ \E o \in Outcomes(req.api, url.host) :
         wrsp' = [wrsp EXCEPT ![srv] =
                    [err |-> o.err, server |-> srv, Response |-> o.Response]]
    /\ wpc' = [wpc EXCEPT ![srv] = "send"]
    /\ UNCHANGED <<queryVars, req, Body, hpc, out, queries, buckets, url, requests, wg,
                   responses, closed, tpc, result, rsp, placed, arrived,
                   Chunk>>

\* the URL of the request a worker passes to c.Do: in ProxyRequests the
\* request of the map, made for its backend; in Proxy the copy, whose URL
\* is the one URL of r
requestURL(srv) == IF req.api = "Proxy" THEN url ELSE dest(srv)

\* the worker of ProxyRequests and of Proxy: c.Do(r), and a send only if
\* err == nil
Do(srv) ==
    /\ wpc[srv] = "Do"
    /\ sent' = [sent EXCEPT ![srv] =
                  [done |-> TRUE, scheme |-> requestURL(srv).scheme,
                   host |-> requestURL(srv).host,
                   path |-> requestURL(srv).path,
                   rawQuery |-> requestURL(srv).rawQuery,
                   method |-> requests[srv].method,
                   body |-> requests[srv].body]]
    /\ \E o \in Outcomes(req.api, requestURL(srv).host) :
         /\ wrsp' = [wrsp EXCEPT ![srv] =
                       [err |-> o.err, server |-> srv, Response |-> o.Response]]
         /\ wpc' = [wpc EXCEPT ![srv] = IF o.err THEN "Done" ELSE "send"]
    /\ UNCHANGED <<queryVars, req, Body, hpc, out, queries, buckets, url, requests, wg,
                   responses, closed, tpc, result, rsp, placed, arrived,
                   Chunk>>

\* responses <- response{...}: possible while the buffer has room
send(srv) ==
    /\ wpc[srv] = "send"
    /\ Len(responses) < chanCap(Cardinality(Launched))
    /\ responses' = Append(responses, wrsp[srv])
    /\ placed' = [placed EXCEPT ![srv] = @ + 1]
    /\ wpc' = [wpc EXCEPT ![srv] = "Done"]
    /\ UNCHANGED <<queryVars, req, Body, hpc, out, queries, buckets, url, requests, sent, wrsp,
                   wg, closed, tpc, result, rsp, arrived,
                   Chunk>>

\* wg.Done()
Done(srv) ==
    /\ wpc[srv] = "Done"
    /\ wg' = wg - 1
    /\ wpc' = [wpc EXCEPT ![srv] = "exit"]
    /\ UNCHANGED <<queryVars, req, Body, hpc, out, queries, buckets, url, requests, sent, wrsp,
                   responses, closed, tpc, result, rsp, placed, arrived,
                   Chunk>>

\* the terminator: wg.Wait(); close(responses)
close ==
    /\ tpc = "wait"
    /\ Wait(wg)
    /\ closed' = closed + 1
    /\ tpc' = "exit"
    /\ UNCHANGED <<queryVars, req, Body, hpc, out, queries, buckets, url, requests, wpc, sent,
                   wrsp, wg, responses, result, rsp, placed, arrived,
                   Chunk>>

(***************************************************************************)
(* The range loops and what follows them                                   *)
(***************************************************************************)

\* chunk[i].Target = rsp.server.name + "." + v.Target, and the same for
\* the Path of a metric node and for an expanded name
prefixed(api, srv, entry) ==
    IF api = "render"
    THEN [entry EXCEPT !.target = name(srv) \o <<".">> \o @]
    ELSE [entry EXCEPT !.path = name(srv) \o <<".">> \o @]

\* a loop body that does not look at the status of the response
chunkOfAnyStatus(api, r) ==
    IF r.err \/ ~r.Response.decodable
    THEN <<>>
    ELSE [i \in 1..Len(r.Response.body) |->
            prefixed(api, r.server, r.Response.body[i])]

\* the body of the range loop of a handler of the Mux for the entry r:
\* what is appended to result
chunkOf(api, r) ==
    IF r.err \/ r.Response.StatusCode # 200 \/ ~r.Response.decodable
    THEN <<>>
    ELSE [i \in 1..Len(r.Response.body) |->
            prefixed(api, r.server, r.Response.body[i])]

\* the body of the range loop of Config.render over multi.ProxyRequests
renderLines(r) == IF r.Response.decodable THEN r.Response.body ELSE <<>>

\* the body of the range loop of Config.metricsFind over multi.Proxy
metricNodes(r) ==
    IF r.Response.decodable
    THEN [i \in 1..Len(r.Response.body) |->
            prefixed("metrics", r.server, r.Response.body[i])]
    ELSE <<>>

\* json.RawMessage.UnmarshalJSON, *m = append((*m)[0:0], data...), seen
\* through a slice header that was copied before: the bytes under it are
\* those of data as far as data goes
overlay(old, data) ==
    [k \in 1..Len(old) |-> IF k <= Len(data) THEN data[k] ELSE old[k]]

\* The Decoder decodes element i of a body into chunk[i] when chunk has
\* one, and append writes into the buffer of its Datapoints when the data
\* fits its capacity: it does when the data is no longer than what the
\* buffer has held, and it may when it is longer.  f[i] says that element i
\* was written in place.
inPlace(ck, entries) ==
    {f \in [1..Len(entries) -> BOOLEAN] :
        \A i \in 1..Len(entries) :
           /\ f[i] => i <= Len(ck)
           /\ i <= Len(ck) /\ Len(entries[i].datapoints) <= ck[i].fits
              => f[i]}

\* result after decodeJSON(rsp.Body, &chunk): the entries appended earlier
\* whose Datapoints point into a buffer that was written in place
decoded(res, ck, entries, f) ==
    [n \in 1..Len(res) |->
       IF \E i \in 1..Len(entries) : f[i] /\ n \in ck[i].aliases
       THEN [res[n] EXCEPT !.datapoints =
               overlay(@, entries[CHOOSE i \in 1..Len(entries) :
                                    f[i] /\ n \in ck[i].aliases].datapoints)]
       ELSE res[n]]

\* chunk after the decoding and, if appended, after
\* result = append(result, chunk...) onto a result of length n; the Decoder
\* sets a slice to a new empty slice when it has decoded an empty list
chunkAfter(ck, entries, f, appended, n) ==
    IF appended /\ entries = <<>> THEN <<>>
    ELSE
    [i \in 1..(IF Len(ck) > Len(entries) THEN Len(ck) ELSE Len(entries)) |->
       IF i > Len(entries) THEN ck[i]
       ELSE [fits |-> IF f[i] /\ ck[i].fits > Len(entries[i].datapoints)
                      THEN ck[i].fits
                      ELSE Len(entries[i].datapoints),
             aliases |-> (IF f[i] THEN ck[i].aliases ELSE {})
                         \cup (IF appended THEN {n + i} ELSE {})]]

\* the body of the range loop of Mux.render for the entry r
renderChunk(r) ==
    IF r.err \/ r.Response.StatusCode # 200
    THEN result' = result /\ Chunk' = Chunk
    ELSE \E f \in inPlace(Chunk, r.Response.body) :
           /\ result' = decoded(result, Chunk, r.Response.body, f)
                          \o chunkOf("render", r)
           /\ Chunk' = chunkAfter(Chunk, r.Response.body, f,
                                  r.Response.decodable, Len(result))

\* one iteration of for rsp = range responses
range ==
    /\ hpc = "range"
    /\ responses # <<>>
    /\ rsp' = Head(responses)
    /\ responses' = Tail(responses)
    /\ IF req.api = "render" THEN renderChunk(Head(responses))
       ELSE /\ result' = result \o (IF req.api = "ProxyRequests"
                                    THEN renderLines(Head(responses))
                                    ELSE IF req.api = "Proxy"
                                    THEN metricNodes(Head(responses))
                                    ELSE chunkOf(req.api, Head(responses)))
            /\ Chunk' = Chunk
    /\ arrived' = Append(arrived, Head(responses).server)
    /\ UNCHANGED <<queryVars, req, Body, hpc, out, queries, buckets, url, requests, wpc, sent,
                   wrsp, wg, closed, tpc, placed>>

\* the end of the loop, on the closed and drained channel, and the answer
answer ==
    /\ hpc = "range"
    /\ responses = <<>>
    /\ closed > 0
    /\ out' = IF req.api \in {"ProxyRequests", "Proxy"} THEN encoded(result)
              ELSE IF Len(result) > 0 THEN encoded(result)
              ELSE IF ~rsp.Response.isNil THEN written(rsp.Response)
              ELSE httperror(503)
    /\ hpc' = "done"
    /\ UNCHANGED <<queryVars, req, Body, queries, buckets, url, requests, wpc, sent, wrsp, wg,
                   responses, closed, tpc, result, rsp, placed, arrived,
                   Chunk>>

(***************************************************************************)
(* multi.Proxy: one request copied to every target                         *)
(***************************************************************************)

\* whether the dynamic type of a body has a ReadAt method.  The buffer
\* that bufferBody installs is ioutil.NopCloser(bytes.NewReader(data)):
\* the wrapper has Read and Close only.
isReaderAt(b) == b.kind = "ReaderAt"

\* ioutil.ReadAll(r.Body): what is left from the cursor on
ReadAll(b) ==
    [err |-> b.kind = "broken",
     data |-> IF b.kind = "broken" THEN <<>>
              ELSE SubSeq(b.data, b.off + 1, Len(b.data))]

\* bufferBody(r): a body that is not an io.ReaderAt is read to its end and
\* replaced by a reader over what was read
bufferBody(b) ==
    IF ~isReaderAt(b) /\ b.kind # "nil"
    THEN IF ReadAll(b).err
         THEN [err |-> TRUE, Body |-> b]
         ELSE [err |-> FALSE,
               Body |-> [kind |-> "NopCloser", data |-> ReadAll(b).data,
                         off |-> 0, ContentLength |-> b.ContentLength,
                         reads |-> IF b.kind = "stream" THEN b.reads + 1
                                   ELSE b.reads]]
    ELSE [err |-> FALSE, Body |-> b]

\* path.Join on paths held as their segments
Join(a, b) == a \o b

\* io.NewSectionReader(r, 0, req.ContentLength), read to its end
SectionReader(b, n) ==
    SubSeq(b.data, 1, IF n < Len(b.data) THEN n ELSE Len(b.data))

\* Proxy up to its return: bufferBody(r), and one worker per target, or
\* the closed channel when the body could not be read
Proxy ==
    /\ hpc = "accept"
    /\ req.api = "Proxy"
    /\ Body' = bufferBody(Body).Body
    /\ IF bufferBody(Body).err
       THEN /\ closed' = closed + 1
            /\ UNCHANGED <<wpc, wg, tpc>>
       ELSE /\ wpc' = [srv \in Servers |->
                         IF srv \in req.names THEN "CopyRequest" ELSE "none"]
            /\ wg' = Cardinality(req.names)
            /\ tpc' = "wait"
            /\ UNCHANGED closed
    /\ hpc' = "range"
    /\ UNCHANGED <<queryVars, req, out, queries, buckets, url, requests, sent, wrsp,
                   responses, result, rsp, placed, arrived,
                   Chunk>>

\* The worker of Proxy, first half: req := t.CopyRequest(r).  The copy
\* points to the URL and to the Body of r.  With a body, bufferBody runs
\* again, in every worker and on the one r, and req.Body.(io.ReaderAt)
\* panics when the body is not one: the process ends.
CopyRequest(srv) ==
    /\ wpc[srv] = "CopyRequest"
    /\ url' = [scheme |-> dest(srv).scheme,
               host |-> dest(srv).host,
               path |-> Join(dest(srv).path, url.path),
               rawQuery |-> joinQuery(dest(srv).rawQuery, url.rawQuery)]
    /\ Body' = bufferBody(Body).Body
    /\ IF Body.kind = "nil"
       THEN /\ requests' = [requests EXCEPT ![srv] =
                              [made |-> TRUE, method |-> req.method,
                               form |-> <<>>, body |-> <<>>]]
            /\ wpc' = [wpc EXCEPT ![srv] = "Do"]
            /\ UNCHANGED <<hpc, tpc>>
       ELSE IF isReaderAt(bufferBody(Body).Body)
       THEN /\ requests' = [requests EXCEPT ![srv] =
                              [made |-> TRUE, method |-> req.method,
                               form |-> <<>>,
                               body |-> SectionReader(bufferBody(Body).Body,
                                                      Body.ContentLength)]]
            /\ wpc' = [wpc EXCEPT ![srv] = "Do"]
            /\ UNCHANGED <<hpc, tpc>>
       ELSE /\ wpc' = [s \in Servers |->
                         IF wpc[s] = "none" THEN "none" ELSE "panic"]
            /\ hpc' = "panic"
            /\ tpc' = "panic"
            /\ UNCHANGED requests
    /\ UNCHANGED <<queryVars, req, out, queries, buckets, sent, wrsp, wg, responses,
                   closed, result, rsp, placed, arrived,
                   Chunk>>

Worker(srv) ==
    \/ Director(srv)
    \/ RoundTrip(srv)
    \/ Do(srv)
    \/ send(srv)
    \/ Done(srv)

Next ==
    \/ render
    \/ metrics
    \/ expand
    \/ ProxyRequests
    \/ \E srv \in Servers : Worker(srv)
    \/ close
    \/ range
    \/ answer

Spec == Init /\ [][Next]_vars

(***************************************************************************)
(* Scheduling                                                              *)
(***************************************************************************)

\* The Go scheduler runs every goroutine that can take a step.  Here only
\* the workers are scheduled: the handler may stop receiving at any point.
WorkerFairSpec == Spec /\ \A srv \in Servers : WF_vars(Worker(srv))

\* a call of multi.Proxy, its workers, and the loop of Config.metricsFind
\* that ranges over its channel
ProxyInit ==
    /\ req \in ProxyCalls
    /\ Body \in Bodies
    /\ queryIdle
    /\ hpc = "accept"
    /\ noDispatch

ProxyWorker(srv) ==
    \/ CopyRequest(srv)
    \/ Do(srv)
    \/ send(srv)
    \/ Done(srv)

ProxyNext ==
    \/ Proxy
    \/ \E srv \in Servers : ProxyWorker(srv)
    \/ close
    \/ range
    \/ answer

ProxySpec == ProxyInit /\ [][ProxyNext]_vars

(***************************************************************************)
(* package query on its own: Parse, Metrics, an assignment, String         *)
(***************************************************************************)

braceGroup == <<"{", "b", ",", "c", "}">>

bracketGroup == <<"[", "0", "-", "7", "]">>

\* path components of metric patterns: a name, a star, a group, and a
\* group before or after a name
Components ==
    {<<"a">>, <<"*">>, <<"a", "*">>, <<"c", "-", "1">>, braceGroup,
     bracketGroup, <<"a">> \o braceGroup, <<"a">> \o bracketGroup,
     braceGroup \o <<"a">>, bracketGroup \o <<"a">>}

\* the most components of a metric pattern given to the lexer
MaxComponents == 2

RECURSIVE PatternsOf(_)
PatternsOf(n) ==
    IF n = 1 THEN Components
    ELSE PatternsOf(n - 1)
         \cup {m \o <<".">> \o c : m \in PatternsOf(n - 1), c \in Components}

MetricPatterns == PatternsOf(MaxComponents)

\* a sign, digits and a fraction, each in its forms
NumberRuns ==
    {sign \o digits \o fraction :
       sign \in {<<>>, <<"-">>, <<"+">>},
       digits \in {<<"1">>, <<"3", "0", "5">>},
       fraction \in {<<>>, <<".">>, <<".", "5">>}}

\* what follows the run in the input: nothing, white space, a delimiter,
\* a quote, or the rest of a metric that begins with an identifier
\* character, a glob character or a dot
Continuations ==
    {<<>>, <<" ">>, <<"(">>, <<")">>, <<",">>, <<"\"", "x", "\"">>,
     <<"m", ".", "c">>, <<"_", "m", ".", "c">>, <<"-", "m", ".", "c">>,
     <<"*">>, braceGroup, bracketGroup, <<".", "m", ".", "c">>}

NumberInputs == {run \o c : run \in NumberRuns, c \in Continuations}

\* arguments of a call, as their source text and as the node expected for
\* them: a metric, two numbers, a quoted string, a call
ArgPool ==
    {[src |-> <<"a", ".", "b">>, node |-> MetricNode(<<"a", ".", "b">>)],
     [src |-> <<"1">>, node |-> ValueNode(<<"1">>)],
     [src |-> <<"-", "0", ".", "5">>,
      node |-> ValueNode(<<"-", "0", ".", "5">>)],
     [src |-> <<"\"", "x", " ", "y", "\"">>,
      node |-> ValueNode(<<"\"", "x", " ", "y", "\"">>)],
     [src |-> <<"g", "(", "a", ".", "b", ")">>,
      node |-> FuncNode(<<"g">>, <<MetricNode(<<"a", ".", "b">>)>>)]}

\* the most arguments of a call given to the parser
MaxArgs == 2

RECURSIVE joinArgs(_, _)
joinArgs(args, i) ==
    IF i > Len(args) THEN <<>>
    ELSE args[i].src \o (IF i < Len(args) THEN <<",", " ">> ELSE <<>>)
         \o joinArgs(args, i + 1)

\* the source of the call of f with the arguments
callSource(args) == <<"f", "(">> \o joinArgs(args, 1) \o <<")">>

CallInputs == {callSource(args) : args \in SeqUpTo(ArgPool, MaxArgs)}

\* inputs without a Query: nothing
EmptyInputs == {<<>>, <<" ">>}

\* a lone string, and a lone number (with the space that ends it)
LiteralInputs ==
    {<<"\"", "x", "\"">>, <<"'", "x", "'">>, <<"1", " ">>,
     <<"-", "0", ".", "5", " ">>}

\* a complete Query and more input after it
TrailingInputs ==
    {<<"a", ".", "b", " ", "c", ".", "d">>,
     <<"a", ".", "b", ")">>,
     <<"a", ".", "b", ",", " ", "c", ".", "d">>,
     <<"f", "(", "a", ".", "b", ")", " ", "a", ".", "b">>,
     <<"f", "(", "a", ".", "b", ")", ")">>,
     <<"f", "(", "a", ".", "b", ")", " ", "1", " ">>}

\* the number of groups of the metric with the most groups
ManyGroups == 7

\* Metrics with brace groups, as their parts: text outside the braces, and
\* groups with their alternatives
BraceParts ==
    {<<[group |-> FALSE, alts |-> <<<<"x", ".">>>>],
       [group |-> TRUE, alts |-> <<<<"b">>, <<"c">>>>]>>,
     <<[group |-> TRUE, alts |-> <<<<"b">>, <<"c">>>>],
       [group |-> FALSE, alts |-> <<<<".", "y">>>>]>>,
     <<[group |-> FALSE, alts |-> <<<<"x", ".">>>>],
       [group |-> TRUE, alts |-> <<<<"b">>, <<"c">>>>],
       [group |-> FALSE, alts |-> <<<<".">>>>],
       [group |-> TRUE, alts |-> <<<<"d">>, <<"e">>, <<"f">>>>],
       [group |-> FALSE, alts |-> <<<<".", "y">>>>]>>,
     <<[group |-> TRUE, alts |-> <<<<"b">>, <<"c">>>>],
       [group |-> TRUE, alts |-> <<<<"d">>, <<"e">>>>]>>,
     <<[group |-> FALSE, alts |-> <<<<"s", "[", "0", "-", "7", "]", "*", ".">>>>],
       [group |-> TRUE, alts |-> <<<<"b">>, <<"c">>>>],
       [group |-> FALSE, alts |-> <<<<".", "*">>>>]>>,
     <<[group |-> TRUE, alts |-> <<<<"b">>, <<>>>>],
       [group |-> FALSE, alts |-> <<<<"z">>>>]>>,
     <<[group |-> TRUE, alts |-> <<<<"b">>>>]>>,
     <<[group |-> TRUE, alts |-> <<<<"a">>, <<"b">>>>],
       [group |-> FALSE, alts |-> <<<<".">>>>],
       [group |-> TRUE, alts |-> <<<<"c">>, <<"d">>>>],
       [group |-> FALSE, alts |-> <<<<".">>>>],
       [group |-> TRUE, alts |-> <<<<"e">>, <<"f">>>>]>>,
     <<[group |-> FALSE, alts |-> <<<<"x", ".">>>>],
       [group |-> TRUE, alts |-> <<<<"a">>, <<"a">>>>]>>,
     [i \in 1..ManyGroups |-> [group |-> TRUE, alts |-> <<<<"a">>, <<"b">>>>]]}

RECURSIVE joinAlts(_, _)
joinAlts(alts, i) ==
    IF i > Len(alts) THEN <<>>
    ELSE alts[i] \o (IF i < Len(alts) THEN <<",">> ELSE <<>>)
         \o joinAlts(alts, i + 1)

\* the metric that the parts are the parts of
RECURSIVE sourceOf(_)
sourceOf(parts) ==
    IF parts = <<>> THEN <<>>
    ELSE (IF Head(parts).group
          THEN <<"{">> \o joinAlts(Head(parts).alts, 1) \o <<"}">>
          ELSE Head(parts).alts[1])
         \o sourceOf(Tail(parts))

BraceMetrics == {sourceOf(parts) : parts \in BraceParts}

\* metrics with a brace inside an open group, or with a group left open
MalformedBraces ==
    {<<"{", "a", ",", "{", "b", "}">>,
     <<"x", ".", "{", "a", ",", "b">>,
     <<"{", "b", ",", "c", "}", ".", "{", "d", ",", "{", "e", "}", "}">>,
     <<"{", "b", ",", "c", "}", ".", "{", "d">>,
     <<"x", ".", "{">>,
     <<"{", "b", ",", "c", "}", "{", "{", "d", "}">>,
     <<"x", ".", "{", "a", ",", "b", "}", ".", "{", "c">>}

\* patterns, names, and whether the pattern matches the name
MatchCases ==
    {[pat |-> <<"s", ".", "h", "o", "s", "t", "*">>,
      name |-> <<"s", ".", "h", "o", "s", "t", "1">>, ok |-> TRUE],
     [pat |-> <<"s", ".", "h", "o", "s", "t", "[", "1", "-", "3", "]">>,
      name |-> <<"s", ".", "h", "o", "s", "t", "2">>, ok |-> TRUE],
     [pat |-> <<"s", ".", "h", "o", "s", "t", "[", "1", "-", "3", "]">>,
      name |-> <<"s", ".", "h", "o", "s", "t", "4">>, ok |-> FALSE],
     [pat |-> <<"s", ".", "h", "*", "s", "t", "3">>,
      name |-> <<"s", ".", "h", "o", "o", "o", "o", "s", "t", "3">>, ok |-> TRUE],
     [pat |-> <<"s", ".", "{", "h", ",", "m", ",", "k", "}", "o", "s", "t", "3">>,
      name |-> <<"s", ".", "h", "o", "s", "t", "3">>, ok |-> TRUE],
     [pat |-> <<"s", ".", "{", "h", ",", "m", ",", "k", "}", "o", "s", "t", "3">>,
      name |-> <<"s", ".", "k", "o", "s", "t", "3">>, ok |-> TRUE],
     [pat |-> <<"s", ".", "{", "h", ",", "m", ",", "k", "}", "o", "s", "t", "3">>,
      name |-> <<"s", ".", "l", "o", "s", "t", "3">>, ok |-> FALSE],
     [pat |-> <<"d", "?", "v">>,
      name |-> <<"d", "e", "v">>, ok |-> TRUE],
     [pat |-> <<"d", "?", "v">>,
      name |-> <<"s", ".", "h", "o", "s", "t", "1">>, ok |-> FALSE],
     [pat |-> <<"*">>,
      name |-> <<"d", "e", "v">>, ok |-> TRUE],
     [pat |-> <<"*">>,
      name |-> <<"s", ".", "h", "o", "s", "t", "1">>, ok |-> TRUE],
     [pat |-> <<"{", "d", "e", "v", ",", "p", "r", "o", "d", "}">>,
      name |-> <<"p", "r", "o", "d">>, ok |-> TRUE],
     [pat |-> <<"{", "d", "e", "v", ",", "p", "r", "o", "d", "}">>,
      name |-> <<"d", "e", "v">>, ok |-> TRUE],
     [pat |-> <<"{", "d", "e", "v", ",", "p", "r", "o", "d", "}">>,
      name |-> <<"s", "t", "a", "g", "e">>, ok |-> FALSE],
     [pat |-> <<"[", "a", "b", "c", "]", "e", "v">>,
      name |-> <<"d", "e", "v">>, ok |-> FALSE],
     [pat |-> <<"[", "a", "-", "d", "]", "e", "v">>,
      name |-> <<"d", "e", "v">>, ok |-> TRUE],
     [pat |-> <<"{", "a", ",", "{", "b", "}">>,
      name |-> <<"a">>, ok |-> FALSE],
     [pat |-> <<"d", "e", "[", "v">>,
      name |-> <<"d", "e", "v">>, ok |-> FALSE],
     [pat |-> <<"x", ".", "{", "a", ",", "b">>,
      name |-> <<"x", ".", "a">>, ok |-> FALSE],
     [pat |-> <<"d", "e", "v">>,
      name |-> <<"d", "e", "v">>, ok |-> TRUE],
     [pat |-> <<"d", "e", "v">>,
      name |-> <<"p", "r", "o", "d">>, ok |-> FALSE]}

MatchNames == {c.name : c \in MatchCases}

\* the strings given to Parse
\* a sign or a dot where a number begins, with no digit before what ends
\* the number
SignInputs ==
    {<<"-", " ">>, <<"+", ")">>, <<"+", ".", " ">>,
     <<"f", "(", "-", ",", " ", "a", ".", "b", ")">>,
     <<"f", "(", "a", ".", "b", ",", " ", "-", ".", "5", ")">>}

\* calls with different metrics at different depths, between values:
\* f(a.b, 1, g(c.d, 'x'), e.f) and f(g(h(a.b), c.d), e.f)
NestedInputs ==
    {<<"f", "(", "a", ".", "b", ",", " ", "1", ",", " ", "g", "(", "c",
      ".", "d", ",", " ", "'", "x", "'", ")", ",", " ", "e", ".", "f",
      ")">>,
     <<"f", "(", "g", "(", "h", "(", "a", ".", "b", ")", ",", " ", "c",
      ".", "d", ")", ",", " ", "e", ".", "f", ")">>}

\* the names of the backends, each as a whole query
NameInputs == {name(srv) : srv \in Servers}

QueryInputs ==
    MetricPatterns \cup NumberInputs \cup CallInputs \cup TargetPool
    \cup EmptyInputs \cup LiteralInputs \cup TrailingInputs
    \cup BraceMetrics \cup MalformedBraces \cup {c.pat : c \in MatchCases}
    \cup NameInputs \cup SignInputs \cup NestedInputs

\* the metrics assigned through a handle
NewMetrics == {<<"z">>, <<"y", ".", "z">>}

noCall == [api |-> "none", method |-> "", targets |-> <<>>, names |-> {}]

QueryInit ==
    /\ qinput \in QueryInputs
    /\ mcall = noMethod
    /\ qitems = <<>>
    /\ qresult = noQuery
    /\ qbefore = noQuery
    /\ qassigned = noAssignment
    /\ qstring = <<>>
    /\ qpc = "lex"
    /\ lrun = noRun
    /\ nest = noNest
    /\ pipe = noPipe
    /\ req = noCall
    /\ Body = nilBody
    /\ hpc = "none"
    /\ noDispatch

\* lex(query) and the lexer's goroutine: l.run() sends the items
run ==
    /\ qpc = "lex"
    /\ qitems' = lex(qinput)
    /\ qpc' = "yyParse"
    /\ UNCHANGED <<muxVars, nest, pipe, lrun, qinput, mcall, qresult, qbefore, qassigned,
                   qstring>>

\* Parse from yyParse(l) on: the Query, or the error
yyParse ==
    /\ qpc = "yyParse"
    /\ qresult' = Parse(qinput)
    /\ qbefore' = Parse(qinput)
    /\ qpc' = IF Parse(qinput).ok THEN "parsed" ELSE "error"
    /\ UNCHANGED <<muxVars, nest, pipe, lrun, qinput, mcall, qitems, qassigned, qstring>>

\* *q.Metrics()[i] = s
assign ==
    /\ qpc = "parsed"
    /\ \E i \in 1..Len(Metrics(qresult)), s \in NewMetrics :
         /\ qresult' = [qresult EXCEPT
                          !.expr = Assign(@, Metrics(qresult)[i], s)]
         /\ qassigned' = [i |-> i, s |-> s]
    /\ qpc' = "assigned"
    /\ UNCHANGED <<muxVars, nest, pipe, lrun, qinput, mcall, qitems, qbefore, qstring>>

\* q.String()
StringCall ==
    /\ qpc \in {"parsed", "assigned"}
    /\ qstring' = String(qresult)
    /\ qpc' = "String"
    /\ UNCHANGED <<muxVars, nest, pipe, lrun, qinput, mcall, qitems, qresult, qbefore,
                   qassigned>>

\* m.Expand()
ExpandCall ==
    /\ qpc = "lex"
    /\ mcall' = [fn |-> "Expand", name |-> <<>>, value |-> Expand(qinput)]
    /\ qpc' = "Metric"
    /\ UNCHANGED <<muxVars, nest, pipe, lrun, qinput, qitems, qresult, qbefore, qassigned,
                   qstring>>

\* m.Match(name)
MatchCall ==
    /\ qpc = "lex"
    /\ \E n \in MatchNames :
         mcall' = [fn |-> "Match", name |-> n, value |-> Match(qinput, n)]
    /\ qpc' = "Metric"
    /\ UNCHANGED <<muxVars, nest, pipe, lrun, qinput, qitems, qresult, qbefore, qassigned,
                   qstring>>

\* m.Split()
SplitCall ==
    /\ qpc = "lex"
    /\ mcall' = [fn |-> "Split", name |-> <<>>, value |-> Split(qinput)]
    /\ qpc' = "Metric"
    /\ UNCHANGED <<muxVars, nest, pipe, lrun, qinput, qitems, qresult, qbefore, qassigned,
                   qstring>>

QueryNext ==
    \/ run
    \/ yyParse
    \/ assign
    \/ StringCall
    \/ ExpandCall
    \/ MatchCall
    \/ SplitCall

QuerySpec == QueryInit /\ [][QueryNext]_vars

(***************************************************************************)
(* walk and marshalExpr call by call, on queries nested as deep as their   *)
(* maxDepth and deeper                                                     *)
(***************************************************************************)

\* the metric at the bottom of a nested query, and the metric beside the
\* inner call at every level
deepMetric == <<"d", ".", "m">>

sideMetric == <<"s", ".", "m">>

\* A nested query is n calls of f inside one another around deepMetric,
\* each with sideMetric before or after the inner call; in the shape
\* "cycle" the inner call is the call itself (a Func that is its own
\* argument).  A node is the level of its call and whether it is the
\* metric beside the inner call.
rootNode == [level |-> 0, side |-> FALSE]

kindOfNode(tree, node) ==
    IF node.side \/ (tree.shape # "cycle" /\ node.level = tree.n)
    THEN "Metric"
    ELSE "Func"

textOfNode(node) == IF node.side THEN sideMetric ELSE deepMetric

\* Func.Args
argsOfNode(tree, node) ==
    LET inner  == [level |-> IF tree.shape = "cycle" THEN node.level
                             ELSE node.level + 1,
                   side  |-> FALSE]
        beside == [level |-> node.level, side |-> TRUE]
    IN  IF tree.shape = "after" THEN <<inner, beside>>
        ELSE <<beside, inner>>

\* the nesting depths: shallow ones and those around maxDepth
Nestings == 0..2 \cup (maxDepth - 1)..(maxDepth + 2)

NestedQueries ==
    [n : Nestings, shape : {"before", "after"}]
    \cup {[n |-> 0, shape |-> "cycle"]}

NestInit ==
    /\ queryIdle
    /\ req = noCall
    /\ Body = nilBody
    /\ hpc = "none"
    /\ noDispatch

\* a String whose depth count starts two below that of walk
depthOfRootBelow(fn) == IF fn = "walk" THEN 0 ELSE 0 - 2

\* the depth at which the root expression is visited: q.walk calls
\* walk(q.Expr, fn, 0), q.String calls marshalExpr(&buf, q, 0), which
\* passes from the *Query to its Expr with depth + 1
depthOfRoot(fn) == IF fn = "walk" THEN 0 ELSE 1

\* a Query as deep as these is built
Build ==
    /\ nest.fn = "none"
    /\ \E tree \in NestedQueries :
         nest' = [noNest EXCEPT !.tree = tree, !.fn = "idle"]
    /\ UNCHANGED <<muxVars, pipe, lrun, qinput, mcall, qitems, qresult,
                   qbefore, qassigned, qstring, qpc>>

\* q.Metrics() and q.String() are called, each once, in either order
Call ==
    /\ nest.fn = "idle"
    /\ \E fn \in {"walk", "marshalExpr"} \ nest.returned :
         nest' = [nest EXCEPT
                    !.fn = fn,
                    !.stack = <<[node |-> rootNode, depth |-> depthOfRoot(fn),
                                 i |-> 0]>>]
    /\ UNCHANGED <<muxVars, pipe, lrun, qinput, mcall, qitems, qresult,
                   qbefore, qassigned, qstring, qpc>>

\* the stack without its top frame
popped(stack) == SubSeq(stack, 1, Len(stack) - 1)

\* the stack with the loop of the top frame at its next argument and a
\* frame for the call on the argument
descended(stack, args) ==
    LET top == stack[Len(stack)]
    IN  Append([stack EXCEPT ![Len(stack)].i = top.i + 1],
               [node |-> args[top.i], depth |-> top.depth + 1, i |-> 0])

\* one step of walk in the frame on top of the stack: the entry of the
\* call (i = 0), or the loop over v.Args at its i-th argument
walk ==
    /\ nest.fn = "walk"
    /\ nest.stack # <<>>
    /\ LET top  == nest.stack[Len(nest.stack)]
           args == argsOfNode(nest.tree, top.node)
       IN  nest' =
             IF top.i = 0
             THEN IF top.depth > maxDepth
                  THEN [nest EXCEPT !.stack = popped(@)]
                  ELSE IF kindOfNode(nest.tree, top.node) = "Func"
                  THEN [nest EXCEPT !.stack[Len(nest.stack)].i = 1]
                  ELSE [nest EXCEPT !.handles = Append(@, top.node),
                                    !.stack = popped(@)]
             ELSE IF top.i > Len(args)
             THEN [nest EXCEPT !.stack = popped(@)]
             ELSE [nest EXCEPT !.stack = descended(@, args)]
    /\ UNCHANGED <<muxVars, pipe, lrun, qinput, mcall, qitems, qresult,
                   qbefore, qassigned, qstring, qpc>>

\* one step of marshalExpr in the frame on top of the stack
marshal ==
    /\ nest.fn = "marshalExpr"
    /\ nest.stack # <<>>
    /\ LET top  == nest.stack[Len(nest.stack)]
           args == argsOfNode(nest.tree, top.node)
       IN  nest' =
             IF top.i = 0
             THEN IF top.depth > maxDepth
                  THEN [nest EXCEPT !.stack = popped(@)]
                  ELSE IF kindOfNode(nest.tree, top.node) = "Func"
                  THEN [nest EXCEPT !.text = @ \o <<"f", "(">>,
                                    !.stack[Len(nest.stack)].i = 1]
                  ELSE [nest EXCEPT !.text = @ \o textOfNode(top.node),
                                    !.stack = popped(@)]
             ELSE IF top.i > Len(args)
             THEN [nest EXCEPT !.text = @ \o <<")">>,
                               !.stack = popped(@)]
             ELSE [nest EXCEPT
                     !.text = @ \o (IF top.i > 1 THEN <<",", " ">>
                                    ELSE <<>>),
                     !.stack = descended(@, args)]
    /\ UNCHANGED <<muxVars, pipe, lrun, qinput, mcall, qitems, qresult,
                   qbefore, qassigned, qstring, qpc>>

\* the outermost call returns
Return ==
    /\ nest.fn \in {"walk", "marshalExpr"}
    /\ nest.stack = <<>>
    /\ nest' = [nest EXCEPT !.fn = "idle", !.returned = @ \cup {nest.fn}]
    /\ UNCHANGED <<muxVars, pipe, lrun, qinput, mcall, qitems, qresult,
                   qbefore, qassigned, qstring, qpc>>

NestNext ==
    \/ Build
    \/ Call
    \/ walk
    \/ marshal
    \/ Return

NestSpec == NestInit /\ [][NestNext]_vars

\* a call that can take a step takes it
NestFairSpec == NestSpec /\ WF_vars(NestNext)

(***************************************************************************)
(* Parse with the lexer's goroutine: the items pass through the unbuffered *)
(* channel l.items one by one                                              *)
(***************************************************************************)

\* inputs on which the lexer sends an error item
ErrorInputs ==
    {<<"a", ".", "b", " ", "!">>,
     <<"a", ".", "b", " ", "\"", "c">>,
     <<"f", "(", "a", ".", "b", ",", " ", "'", "c">>,
     <<"a", ".", "{", "b", ",", "c">>,
     <<"a", ".", "[", "0", "-", "7">>,
     <<"a", ".", "{", "b", "\\">>,
     <<"a", ".", "b", " ", "\"", "c", "\\">>,
     <<"a", ".", "b", " ", "c", ".", "d", " ", "\"", "e">>,
     <<"f", "(", "a", ".", "b", ")", " ", "{", "c">>,
     <<"a", ".", "b", "]">>}

LexInputs == QueryInputs \cup ErrorInputs

\* Parse has called lex(query), which started the goroutine, and is in
\* yyParse
LexInit ==
    /\ qinput \in LexInputs
    /\ mcall = noMethod
    /\ qitems = <<>>
    /\ qresult = noQuery
    /\ qbefore = noQuery
    /\ qassigned = noAssignment
    /\ qstring = <<>>
    /\ qpc = "yyParse"
    /\ lrun = [pc |-> "run", todo |-> lex(qinput), sent |-> 0, closed |-> 0]
    /\ nest = noNest
    /\ pipe = noPipe
    /\ req = noCall
    /\ Body = nilBody
    /\ hpc = "none"
    /\ noDispatch

\* l.Lex called by yyParse, and the send of emit or errorf that it meets:
\* the parser gets the next item
Lex ==
    /\ qpc = "yyParse"
    /\ ~yyError(qitems, 1, 0, "query")
    /\ lrun.pc = "run"
    /\ lrun.todo # <<>>
    /\ qitems' = Append(qitems, Head(lrun.todo))
    /\ lrun' = [lrun EXCEPT !.todo = Tail(@), !.sent = @ + 1]
    /\ UNCHANGED <<muxVars, nest, pipe, qinput, mcall, qresult, qbefore, qassigned,
                   qstring, qpc>>

\* the end of l.run(): the state function returned nil, close(l.items)
runEnd ==
    /\ lrun.pc = "run"
    /\ lrun.todo = <<>>
    /\ lrun' = [lrun EXCEPT !.pc = "exit", !.closed = @ + 1]
    /\ UNCHANGED <<muxVars, nest, pipe, qinput, mcall, qitems, qresult, qbefore,
                   qassigned, qstring, qpc>>

\* yyParse returns: l.Lex found the channel closed and returned 0, or the
\* parser met a syntax error and asks for no more tokens
yyReturn ==
    /\ qpc = "yyParse"
    /\ \/ lrun.closed > 0
       \/ yyError(qitems, 1, 0, "query")
    /\ qpc' = "drain"
    /\ UNCHANGED <<muxVars, nest, pipe, lrun, qinput, mcall, qitems, qresult, qbefore,
                   qassigned, qstring>>

\* a drain that does not wait for the close of the channel
drainedAtOnce(lx) == TRUE

\* the end of for range l.items of l.drain(): the channel is closed
drained(lx) == lx.closed > 0

\* one iteration of l.drain(): an item is received and dropped
drain ==
    /\ qpc = "drain"
    /\ ~drained(lrun)
    /\ lrun.pc = "run"
    /\ lrun.todo # <<>>
    /\ lrun' = [lrun EXCEPT !.todo = Tail(@), !.sent = @ + 1]
    /\ UNCHANGED <<muxVars, nest, pipe, qinput, mcall, qitems, qresult, qbefore,
                   qassigned, qstring, qpc>>

\* Parse returns once the deferred l.drain() has returned: the Query of
\* the tokens yyParse took, or the error
ParseReturn ==
    /\ qpc = "drain"
    /\ drained(lrun)
    /\ qresult' = yyResult(qitems)
    /\ qbefore' = qresult'
    /\ qpc' = IF yyResult(qitems).ok THEN "parsed" ELSE "error"
    /\ UNCHANGED <<muxVars, nest, pipe, lrun, qinput, mcall, qitems, qassigned, qstring>>

LexNext ==
    \/ Lex
    \/ runEnd
    \/ yyReturn
    \/ drain
    \/ ParseReturn

LexSpec == LexInit /\ [][LexNext]_vars

\* the goroutine and the caller of Parse both keep running
LexFairSpec == LexSpec /\ WF_vars(LexNext)

(***************************************************************************)
(* internal/mock: the pipeListener and the goroutines that call it         *)
(***************************************************************************)

\* the goroutines that share one listener, and the most calls each makes
MaxGoroutines == 3

MaxCalls == 2

Goroutines == 1..MaxGoroutines

noPipeCall == [fn |-> "none", pc |-> "idle", ret |-> "none", made |-> 0]

\* listener(): both channels are open, nobody has called yet
PipeInit ==
    /\ queryIdle
    /\ req = noCall
    /\ Body = nilBody
    /\ hpc = "none"
    /\ noDispatch

listener ==
    /\ pipe = noPipe
    /\ pipe' = [noPipe EXCEPT !.calls = [g \in Goroutines |-> noPipeCall]]
    /\ UNCHANGED <<muxVars, nest, lrun, qinput, mcall, qitems, qresult,
                   qbefore, qassigned, qstring, qpc>>

\* a goroutine calls Close, Accept or Dial, after its earlier call returned
PipeCall(g) ==
    /\ pipe.calls # <<>>
    /\ ~pipe.panicked
    /\ pipe.calls[g].pc \in {"idle", "returned"}
    /\ pipe.calls[g].made < MaxCalls
    /\ \E fn \in {"Close", "Accept", "Dial"} :
         pipe' = [pipe EXCEPT !.calls[g] = [fn |-> fn, pc |-> "select",
                                            ret |-> "none", made |-> @.made + 1]]
    /\ UNCHANGED <<muxVars, nest, lrun, qinput, mcall, qitems, qresult,
                   qbefore, qassigned, qstring, qpc>>

\* Close: the select finds shutdown closed and returns, or takes default;
\* then close(l.shutdown), which panics on a closed channel
Close(g) ==
    /\ pipe.calls # <<>>
    /\ ~pipe.panicked
    /\ pipe.calls[g].fn = "Close"
    /\ \/ /\ pipe.calls[g].pc = "select"
          /\ pipe' = IF pipe.shutdown = 1
                     THEN [pipe EXCEPT !.calls[g].pc = "returned",
                                       !.calls[g].ret = "nil"]
                     ELSE [pipe EXCEPT !.calls[g].pc = "close"]
       \/ /\ pipe.calls[g].pc = "close"
          /\ pipe' = IF pipe.shutdown = 1
                     THEN [pipe EXCEPT !.panicked = TRUE,
                                       !.calls[g].pc = "panic"]
                     ELSE [pipe EXCEPT !.shutdown = 1,
                                       !.calls[g].pc = "returned",
                                       !.calls[g].ret = "nil"]
    /\ UNCHANGED <<muxVars, nest, lrun, qinput, mcall, qitems, qresult,
                   qbefore, qassigned, qstring, qpc>>

\* Accept: the select receives from l.incoming the connection of a Dial
\* that is sending (both return), or finds shutdown closed
Accept(g) ==
    /\ pipe.calls # <<>>
    /\ ~pipe.panicked
    /\ pipe.calls[g].fn = "Accept"
    /\ pipe.calls[g].pc = "select"
    /\ \/ \E d \in Goroutines :
            /\ pipe.calls[d].fn = "Dial"
            /\ pipe.calls[d].pc = "select"
            /\ pipe' = [pipe EXCEPT !.calls[g].pc = "returned",
                                    !.calls[g].ret = "conn",
                                    !.calls[d].pc = "returned",
                                    !.calls[d].ret = "conn"]
       \/ /\ pipe.shutdown = 1
          /\ pipe' = [pipe EXCEPT !.calls[g].pc = "returned",
                                  !.calls[g].ret = "errClosed"]
    /\ UNCHANGED <<muxVars, nest, lrun, qinput, mcall, qitems, qresult,
                   qbefore, qassigned, qstring, qpc>>

\* Dial: the select finds shutdown closed; its send on l.incoming is the
\* receive of Accept
Dial(g) ==
    /\ pipe.calls # <<>>
    /\ ~pipe.panicked
    /\ pipe.calls[g].fn = "Dial"
    /\ pipe.calls[g].pc = "select"
    /\ pipe.shutdown = 1
    /\ pipe' = [pipe EXCEPT !.calls[g].pc = "returned",
                            !.calls[g].ret = "errClosed"]
    /\ UNCHANGED <<muxVars, nest, lrun, qinput, mcall, qitems, qresult,
                   qbefore, qassigned, qstring, qpc>>

PipeNext ==
    \/ listener
    \/ \E g \in Goroutines : PipeCall(g)
    \/ \E g \in Goroutines : Close(g)
    \/ \E g \in Goroutines : Accept(g)
    \/ \E g \in Goroutines : Dial(g)

PipeSpec == PipeInit /\ [][PipeNext]_vars

\* a goroutine that can take a step of its call takes it
PipeFairSpec ==
    PipeSpec /\ \A g \in Goroutines :
                   WF_vars(Close(g) \/ Accept(g) \/ Dial(g))

(***************************************************************************)
(* package config: Config.MapRequest, the Director of the reverse proxy    *)
(***************************************************************************)

\* Config.Mappings of the configuration: prefix to backend URL
Mappings ==
    {[prefix |-> <<"w", "e", "s", "t">>,
      mapped |-> [scheme |-> "https", host |-> "graphite-west.example.net",
                  path |-> <<>>, rawQuery |-> <<>>]],
     [prefix |-> <<"e", "a", "s", "t">>,
      mapped |-> [scheme |-> "https", host |-> "graphite-east.example.net",
                  path |-> <<>>, rawQuery |-> <<>>]],
     [prefix |-> <<"s", "t", "a", "g", "e">>,
      mapped |-> [scheme |-> "https", host |-> "graphite-stage.example.net",
                  path |-> <<>>, rawQuery |-> <<>>]]}

\* the bytes url.QueryEscape replaces, with their two hexadecimal digits
HexCodes ==
    {[c |-> "*", hex |-> <<"2", "A">>], [c |-> ",", hex |-> <<"2", "C">>],
     [c |-> "(", hex |-> <<"2", "8">>], [c |-> ")", hex |-> <<"2", "9">>],
     [c |-> "{", hex |-> <<"7", "B">>], [c |-> "}", hex |-> <<"7", "D">>],
     [c |-> "[", hex |-> <<"5", "B">>], [c |-> "]", hex |-> <<"5", "D">>]}

\* url.QueryEscape: letters, digits, "-", "_", "." and "~" stay, a space
\* becomes "+", every other byte "%" and two hexadecimal digits
RECURSIVE QueryEscape(_)
QueryEscape(val) ==
    IF val = <<>> THEN <<>>
    ELSE (IF Head(val) \in charAlphanum \cup {"-", "_", ".", "~"}
          THEN <<Head(val)>>
          ELSE IF Head(val) = " " THEN <<"+">>
          ELSE <<"%">> \o (CHOOSE h \in HexCodes : h.c = Head(val)).hex)
         \o QueryEscape(Tail(val))

\* url.QueryUnescape; ok is FALSE where "%" is not followed by two
\* hexadecimal digits
RECURSIVE QueryUnescape(_)
QueryUnescape(raw) ==
    IF raw = <<>> THEN [ok |-> TRUE, val |-> <<>>]
    ELSE IF Head(raw) = "%"
    THEN IF Len(raw) >= 3
            /\ \E h \in HexCodes : h.hex = SubSeq(raw, 2, 3)
         THEN LET rest == QueryUnescape(From(raw, 4))
              IN  [ok |-> rest.ok,
                   val |-> <<(CHOOSE h \in HexCodes :
                                h.hex = SubSeq(raw, 2, 3)).c>> \o rest.val]
         ELSE [ok |-> FALSE, val |-> <<>>]
    ELSE LET rest == QueryUnescape(Tail(raw))
         IN  [ok |-> rest.ok,
              val |-> <<IF Head(raw) = "+" THEN " " ELSE Head(raw)>>
                      \o rest.val]

\* url.ParseQuery: the parameters of a raw query, unescaped; a parameter
\* that cannot be unescaped is left out
RECURSIVE ParseQuery(_)
ParseQuery(raw) ==
    IF raw = <<>> THEN <<>>
    ELSE (IF QueryUnescape(Head(raw).val).ok
          THEN <<[key |-> Head(raw).key,
                  val |-> QueryUnescape(Head(raw).val).val]>>
          ELSE <<>>)
         \o ParseQuery(Tail(raw))

\* Request.ParseForm, which r.FormValue calls: the parameters of the body
\* of a POST request, then those of the URL
ParseForm(method, data, rawQuery) ==
    (IF method = "POST" THEN ParseQuery(data) ELSE <<>>)
    \o ParseQuery(rawQuery)

\* r.FormValue(key): the first value of the key, or the empty string
FormValue(form, key) ==
    IF \E i \in 1..Len(form) : form[i].key = key
    THEN form[CHOOSE i \in 1..Len(form) :
                /\ form[i].key = key
                /\ \A j \in 1..(i - 1) : form[j].key # key].val
    ELSE <<>>

\* Form.Add in the place of Form.Set: the values of the key stay
FormSetAdding(form, key, val) == form \o <<[key |-> key, val |-> val]>>

\* r.Form.Set(key, val): val becomes the only value of the key
FormSet(form, key, val) ==
    SelectSeq(form, LAMBDA p : p.key # key) \o <<[key |-> key, val |-> val]>>

\* the keys of the forms of the model, sorted as Values.Encode sorts them
FormKeys == <<<<"f", "o", "r", "m", "a", "t">>, <<"f", "r", "o", "m">>, <<"t", "a", "r", "g", "e", "t">>>>

\* url.Values.Encode: the parameters sorted by key, the values of one key in
\* their order, keys and values escaped
RECURSIVE FormEncode(_, _)
FormEncode(form, k) ==
    IF k > Len(FormKeys) THEN <<>>
    ELSE LET sel == SelectSeq(form, LAMBDA p : p.key = FormKeys[k])
         IN  [i \in 1..Len(sel) |->
                [key |-> QueryEscape(sel[i].key),
                 val |-> QueryEscape(sel[i].val)]]
             \o FormEncode(form, k + 1)

\* len(params): the bytes of an encoded form, "=" and "&" included
RECURSIVE encodedLen(_)
encodedLen(raw) ==
    IF raw = <<>> THEN 0
    ELSE Len(Head(raw).key) + 1 + Len(Head(raw).val)
         + (IF Len(raw) > 1 THEN 1 ELSE 0) + encodedLen(Tail(raw))

\* the parameters of the requests given to MapRequest, as they are written
\* in the URL or the body
ParamPool ==
    {[key |-> <<"t", "a", "r", "g", "e", "t">>,
      val |-> <<"w", "e", "s", "t", ".", "s", "e", "r", "v", "e", "r", "s", ".", "h", "o", "s", "t", "1", ".", "l", "o", "a", "d", "a", "v", "g", ".", "0", "5">>],
     [key |-> <<"t", "a", "r", "g", "e", "t">>,
      val |-> <<"e", "a", "s", "t", ".", "s", ".", "*">>],
     [key |-> <<"t", "a", "r", "g", "e", "t">>,
      val |-> <<"w", "e", "s", "t", ".", "%", "7", "B", "a", "%", "2", "C", "b", "%", "7", "D", ".", "c">>],
     [key |-> <<"t", "a", "r", "g", "e", "t">>,
      val |-> <<"q", "a", ".", "s">>],
     [key |-> <<"t", "a", "r", "g", "e", "t">>,
      val |-> <<"w", "e", "s", "t">>],
     [key |-> <<"f", "r", "o", "m">>,
      val |-> <<"-", "1", "h">>],
     [key |-> <<"f", "o", "r", "m", "a", "t">>,
      val |-> <<"j", "s", "o", "n">>]}

\* the most parameters of a URL, and of a body
MaxParams == 2

MaxBodyParams == 1

\* the requests given to MapRequest
MapCalls ==
    [api : {"MapRequest"}, method : {"GET", "POST", "HEAD"},
     targets : {<<>>}, names : {{}}]

ConfigInit ==
    /\ req \in MapCalls
    /\ url \in [scheme : {"https"}, host : {"a"},
                path : {<<"render">>, <<"metrics">>},
                rawQuery : SeqUpTo(ParamPool, MaxParams)]
    /\ Body \in IF req.method = "POST"
                THEN {[kind |-> "stream", data |-> d, off |-> 0,
                       ContentLength |-> encodedLen(d), reads |-> 0] :
                        d \in SeqUpTo(ParamPool, MaxBodyParams)}
                ELSE {nilBody}
    /\ queryIdle
    /\ hpc = "Director"
    /\ out = noOut
    /\ queries = <<>>
    /\ buckets = [srv \in Servers |-> <<>>]
    /\ requests = [srv \in Servers |-> noRequest]
    /\ wpc = [srv \in Servers |-> "none"]
    /\ sent = [srv \in Servers |-> noSent]
    /\ wrsp = [srv \in Servers |-> zeroResponse]
    /\ wg = 0
    /\ responses = <<>>
    /\ closed = 0
    /\ tpc = "none"
    /\ result = <<>>
    /\ rsp = zeroResponse
    /\ placed = [srv \in Servers |-> 0]
    /\ arrived = <<>>
    /\ Chunk = <<>>

\* badRequest(r)
badRequest == url' = [url EXCEPT !.path = <<"notfound">>]

\* the body of a POST request once ParseForm has read it
readBody(b, method) ==
    IF method = "POST"
    THEN [b EXCEPT !.off = Len(b.data), !.reads = b.reads + 1]
    ELSE b

\* MapRequest from r.FormValue on: form is r.Form.  r.Host follows
\* r.URL.Host, and url.host stands for both.
mapForm(form) ==
    LET target == FormValue(form, <<"t", "a", "r", "g", "e", "t">>)
        cut    == IndexOf(target, ".")
        prefix == SubSeq(target, 1, cut - 1)
        rest   == From(target, cut + 1)
        params == FormEncode(FormSet(form, <<"t", "a", "r", "g", "e", "t">>, rest), 1)
    IN  IF cut = 0 \/ \A mp \in Mappings : mp.prefix # prefix
        THEN /\ badRequest
             /\ Body' = readBody(Body, req.method)
        ELSE LET mapped == (CHOOSE mp \in Mappings :
                              mp.prefix = prefix).mapped
             IN  /\ url' = [mapped EXCEPT
                              !.path = <<"render">>,
                              !.rawQuery = IF req.method = "GET" THEN params
                                           ELSE mapped.rawQuery]
                 /\ Body' = IF req.method = "POST"
                            THEN [kind |-> "stream", data |-> params,
                                  off |-> 0,
                                  ContentLength |-> encodedLen(params),
                                  reads |-> 0]
                            ELSE Body

\* Config.MapRequest(r)
MapRequest ==
    /\ hpc = "Director"
    /\ req.api = "MapRequest"
    /\ IF url.path # <<"render">>
       THEN badRequest /\ Body' = Body
       ELSE mapForm(ParseForm(req.method, Body.data, url.rawQuery))
    /\ hpc' = "mapped"
    /\ UNCHANGED <<queryVars, req, out, queries, buckets, requests, wpc,
                   sent, wrsp, wg, responses, closed, tpc, result, rsp,
                   placed, arrived,
                   Chunk>>

ConfigNext == MapRequest

ConfigSpec == ConfigInit /\ [][ConfigNext]_vars

\* every goroutine of a dispatch is scheduled: the handler in its loop,
\* the workers, the terminator
FairSpec ==
    /\ Spec
    /\ WF_vars(range \/ answer)
    /\ \A srv \in Servers : WF_vars(Worker(srv))
    /\ WF_vars(close)

(***************************************************************************)
(* Properties                                                              *)
(***************************************************************************)

isMux == req.api \in {"render", "metrics", "expand"}

\* C1: in proxyMetrics and proxyRender a worker that is at its send finds
\* room in the channel (its capacity is the number of workers launched),
\* and every worker launched runs to its end although the handler may stop
\* receiving after any number of entries.
C1_SendNeverBlocks ==
    /\ [](isMux => chanCap(Cardinality(Launched)) >= Cardinality(Launched))
    /\ [](\A srv \in Servers : wpc[srv] = "send" => ENABLED send(srv))
    /\ \A srv \in Servers : (wpc[srv] # "none") ~> (wpc[srv] = "exit")

\* the last of two workers of a Mux handler is at its send while the entry
\* of the first is still in the channel: the handler has received nothing
C1_Witness ==
    /\ isMux
    /\ Cardinality(Launched) = 2
    /\ Len(responses) = 1
    /\ arrived = <<>>
    /\ \E srv \in Servers : wpc[srv] = "send"

\* C2: the result channel is closed at most once, and only once every
\* worker has sent and finished, so that no worker sends on the closed
\* channel; the close does happen, also for a dispatch over no backend,
\* and the handler's range loop ends.
C2_ClosedOnceAfterAll ==
    /\ [](closed <= 1)
    /\ [](closed > 0 => \A srv \in Servers : wpc[srv] \in {"none", "exit"})
    /\ (hpc = "range") ~> (closed = 1 /\ hpc = "done")

\* the channel of a dispatch over two backends is closed and the loop over
\* it has ended
C2_Witness ==
    /\ closed = 1
    /\ Cardinality(Launched) = 2
    /\ Len(arrived) = 2
    /\ hpc = "done"

\* the original query of the i-th target, before stripPrefix
original(i) == Parse(req.targets[i])

\* the servers a request was made for
Routed == {srv \in Servers : requests[srv].made}

\* the servers whose name the first component of the k-th metric of a query
\* matches
matchedBy(q, k) ==
    {srv \in Servers :
        Match(Split(Deref(q.expr, Metrics(q)[k])).first, name(srv))}

\* the servers named in the answer to a toplevel /metrics request
namedIn(body) == {srv \in Servers : \E i \in 1..Len(body) : body[i].path = name(srv) \o <<".">>}

\* C3: one worker is launched per backend of the mapping, and a worker that
\* has run to its end has placed exactly one entry on the channel, whether
\* its call succeeded or failed.
C3_OneEntryPerTask ==
    hpc \in {"range", "done"}
    => /\ Launched = Routed
       /\ \A srv \in Launched : wpc[srv] = "exit" => placed[srv] = 1

\* C4: when every backend of a request to the Mux failed, the answer is the
\* last response object that arrived, if any backend produced one, for
\* every order of arrival; it is 503 only if none produced one.
C4_ForwardLastResponse ==
    (/\ isMux
     /\ hpc = "done"
     /\ Len(arrived) > 0
     /\ \A srv \in Launched :
          \/ wrsp[srv].err
          \/ wrsp[srv].Response.StatusCode # 200
          \/ ~wrsp[srv].Response.decodable)
    => LET withResponse == {i \in 1..Len(arrived) :
                               ~wrsp[arrived[i]].Response.isNil}
       IN  IF withResponse = {}
           THEN out = httperror(503)
           ELSE out = written(wrsp[arrived[CHOOSE i \in withResponse :
                          \A j \in withResponse : j <= i]].Response)

\* C5: for a GET /render routed to two or more backends, the request that
\* reaches a backend carries as its target parameters exactly the queries
\* of that backend's bucket, stripped of their prefix.
C5_BucketTargets ==
    (req.api = "render" /\ req.method = "GET" /\ Cardinality(Routed) >= 2)
    => \A srv \in Servers :
         (sent[srv].done /\ serverAt(sent[srv].host) # "none")
         => valuesOf(sent[srv].rawQuery, "target")
              = bucketForm(queries, buckets[serverAt(sent[srv].host)])

\* the raw query of the request made for a server: that of its own form
\* for a GET; a POST carries its form in the body
ownQuery(srv) ==
    IF req.method = "POST" THEN incomingURL(req).rawQuery
    ELSE requests[srv].form

\* C6: the workers of a request leave the scheme, host and path of the
\* incoming request as they were, and the request a worker sends for
\* backend B has B's scheme and host, B's path joined once with the
\* incoming path, and the raw query of B's own copy.
C6_CopiesIndependent ==
    isMux =>
      /\ url.scheme = incomingURL(req).scheme
      /\ url.host = incomingURL(req).host
      /\ url.path = incomingURL(req).path
      /\ \A srv \in Servers :
           sent[srv].done =>
             /\ sent[srv].scheme = dest(srv).scheme
             /\ sent[srv].host = dest(srv).host
             /\ sent[srv].path
                  = singleJoiningSlash(dest(srv).path, incomingURL(req).path)
             /\ sent[srv].rawQuery = joinQuery(dest(srv).rawQuery, ownQuery(srv))

\* C7: every entry of a merged answer is an entry of the backend that
\* produced it, with the name of exactly that backend and a dot put before
\* its target or path.
C7_PrefixOfProducer ==
    isMux =>
      \A i \in 1..Len(result) :
        \E j \in 1..Len(listOf(req.api, result[i].from)) :
          result[i] = prefixed(req.api, result[i].from,
                               listOf(req.api, result[i].from)[j])

\* C8: GET /metrics with an empty query or with the query * is answered
\* with status 200 and one node {is_leaf: 0, name: B, path: B + "."} for
\* each configured backend B, without a call to any backend.
C8_ToplevelEnumeration ==
    (/\ req.api = "metrics"
     /\ req.method = "GET"
     /\ req.targets[1] \in {tEmpty, tStar}
     /\ hpc = "done")
    => /\ out.kind = "json"
       /\ out.status = 200
       /\ Len(out.body) = Cardinality(Servers)
       /\ \A srv \in Servers :
            \E i \in 1..Len(out.body) : out.body[i] = toplevelNode(srv)
       /\ \A srv \in Servers : ~sent[srv].done /\ wpc[srv] = "none"

\* C9: a target whose metrics name different prefixes is put into the
\* buckets of exactly the backends that match the prefix of its last metric.
C9_LastPrefix ==
    (req.api = "render" /\ hpc = "range")
    => \A i \in 1..Len(req.targets) :
         Len(Metrics(original(i))) > 0 =>
           \A srv \in Servers :
             (\E k \in 1..Len(buckets[srv]) : buckets[srv][k] = i)
             <=> srv \in matchedBy(original(i), Len(Metrics(original(i))))

\* C10: a query with a single metric is routed to exactly the configured
\* backends whose name its first component matches as a pattern, and to
\* each of them once: dev.a to dev, {dev,prod}.c to dev and prod, qa.a to
\* none, * to all.
C10_RoutedByFirstComponent ==
    /\ (req.api = "render" /\ hpc = "range" /\ Len(req.targets) = 1
        /\ Len(Metrics(original(1))) = 1)
       => /\ Routed = matchedBy(original(1), 1)
          /\ Launched = Routed
          /\ \A srv \in Routed : buckets[srv] = <<1>>
          /\ req.targets[1] = tDevA => Routed = {"dev"}
          /\ req.targets[1] = tBrace => Routed = {"dev", "prod"}
          /\ req.targets[1] = tNone => Routed = {}
    /\ (req.api \in {"metrics", "expand"} /\ req.method = "GET"
        /\ hpc # "accept" /\ original(1).ok
        /\ original(1).expr.kind = "Metric")
       => /\ hpc = "range" =>
               /\ Routed = matchedBy(original(1), 1)
               /\ Launched = Routed
               /\ req.targets[1] = tDevA => Routed = {"dev"}
               /\ req.targets[1] = tBrace => Routed = {"dev", "prod"}
          /\ req.targets[1] = tNone => out = httperror(404) /\ Launched = {}
          /\ (req.targets[1] = tStar /\ req.api = "metrics") =>
               /\ namedIn(out.body) = Servers
               /\ Len(out.body) = Cardinality(Servers)

\* a /render request for {dev,prod}.c has been dispatched to two backends
C10_Witness ==
    /\ req.api = "render"
    /\ req.targets = <<tBrace>>
    /\ hpc = "range"
    /\ Cardinality(Launched) = 2

\* C11: when no configured backend matches a target of the request, the
\* answer is 404 and no backend is called, on /render as on /metrics and
\* /metrics/expand.
C11_NoMatchIs404 ==
    (/\ isMux
     /\ hpc = "done"
     /\ req.method = "GET"
     /\ Len(req.targets) > 0
     /\ \A i \in 1..Len(req.targets) :
          /\ original(i).ok
          /\ req.api = "render" \/ original(i).expr.kind = "Metric"
          /\ \A k \in 1..Len(Metrics(original(i))) :
               matchedBy(original(i), k) = {})
    => /\ out = httperror(404)
       /\ \A srv \in Servers : ~sent[srv].done

\* the worker of a server got a 200 response that decodes to a list with
\* entries
succeeded(srv) ==
    /\ ~wrsp[srv].err
    /\ wrsp[srv].Response.StatusCode = 200
    /\ wrsp[srv].Response.decodable
    /\ wrsp[srv].Response.body # <<>>

\* the worker's call failed: a transport error, a status other than 200 or
\* a body that does not decode
failed(srv) ==
    \/ wrsp[srv].err
    \/ wrsp[srv].Response.StatusCode # 200
    \/ ~wrsp[srv].Response.decodable

\* the entries the handler received from workers that succeeded, in the
\* order of arrival, each with the name of its worker's server before it
RECURSIVE entriesOfSucceeded(_)
entriesOfSucceeded(k) ==
    IF k > Len(arrived) THEN <<>>
    ELSE (IF succeeded(arrived[k])
          THEN [j \in 1..Len(wrsp[arrived[k]].Response.body) |->
                  prefixed(req.api, arrived[k],
                           wrsp[arrived[k]].Response.body[j])]
          ELSE <<>>) \o entriesOfSucceeded(k + 1)

\* C12: when some backends of a request fail and at least one succeeds
\* with a list that is not empty, the answer is 200 and holds exactly the
\* entries of the backends that succeeded, for every order of arrival.
C12_PartialFailure ==
    (/\ isMux
     /\ hpc = "done"
     /\ \E srv \in Launched : succeeded(srv)
     /\ \E srv \in Launched : failed(srv))
    => /\ out.kind = "json"
       /\ out.status = 200
       /\ out.body = entriesOfSucceeded(1)

\* a backend that answered 500 arrived first, one that succeeded second,
\* and the handler has answered
C12_Witness ==
    /\ isMux
    /\ hpc = "done"
    /\ Len(arrived) = 2
    /\ wrsp[arrived[1]].Response.StatusCode = 500
    /\ succeeded(arrived[2])
    /\ out.status = 200

\* C13: if a target of a GET or POST /render request, or the query of a
\* GET /metrics or /metrics/expand request, does not lex or parse (such as
\* "dev(" or the empty string), the answer is 400 and no backend is called,
\* also when other targets of the request are valid.
C13_ParseErrorIs400 ==
    (/\ isMux
     /\ hpc # "accept"
     /\ req.api = "render" \/ req.method = "GET"
     /\ \E i \in 1..Len(req.targets) :
          \/ req.targets[i] \in {tBad, tEmpty}
          \/ ~original(i).ok)
    => /\ hpc = "done"
       /\ out = httperror(400)
       /\ Launched = {}
       /\ \A srv \in Servers : ~sent[srv].done /\ ~requests[srv].made

\* a /render request with a valid target before one that does not parse
\* has been answered
C13_Witness ==
    /\ req.api = "render"
    /\ req.targets = <<tDevA, tBad>>
    /\ hpc = "done"
    /\ out.status = 400

C15_EveryCopyReadsWholeBody ==
    (req.api = "Proxy" /\ Body.reads > 0)
    => /\ Body.reads = 1
       /\ hpc # "panic"
       /\ \A srv \in Servers :
            requests[srv].made => requests[srv].body = <<"x", "y">>

\* C16: for every Query q (one that Parse returned, or one whose metric
\* was assigned since), Parse(q.String()) succeeds and is equal to q.
C16_RoundTrip ==
    qpc = "String"
    => /\ Parse(qstring).ok
       /\ Parse(qstring).expr = qresult.expr

\* the number of Metric nodes of an expression
RECURSIVE countMetrics(_)
RECURSIVE countArgs(_, _)
countMetrics(e) ==
    IF e.kind = "Metric" THEN 1
    ELSE IF e.kind = "Func" THEN countArgs(e.args, Len(e.args))
    ELSE 0

\* the number of Metric nodes of the first n arguments
countArgs(args, n) ==
    IF n = 0 THEN 0 ELSE countArgs(args, n - 1) + countMetrics(args[n])

\* the expression with its k-th Metric node, counted from the left, replaced
\* by the metric s, and nothing else changed
RECURSIVE replaceKth(_, _, _)
replaceKth(e, k, s) ==
    IF e.kind = "Metric" THEN (IF k = 1 THEN MetricNode(s) ELSE e)
    ELSE IF e.kind = "Func"
    THEN [e EXCEPT !.args =
            [j \in 1..Len(e.args) |->
               replaceKth(e.args[j], k - countArgs(e.args, j - 1), s)]]
    ELSE e

C18_OneMetricToken ==
    (/\ qpc # "lex"
     /\ qinput \in MetricPatterns
     /\ \E j \in 1..Len(qinput) : qinput[j] \in {".", "*", "{", "["})
    => qitems = <<[typ |-> "METRIC", val |-> qinput]>>

\* C19: a run of an optional sign, digits and an optional fraction is
\* emitted as a NUMBER exactly when the character after it is white space
\* or one of ( ) , ; when that character is an identifier character, a glob
\* character or a dot, no NUMBER is emitted and the run is the beginning of
\* the one METRIC that the input is.
C19_NumberOrMetric ==
    (qpc # "lex" /\ qinput \in NumberInputs)
    => \A r \in NumberRuns, c \in Continuations :
         qinput = r \o c
         => LET next == IF c = <<>> THEN "eof" ELSE c[1]
            IN  /\ (qitems # <<>> /\ qitems[1] = [typ |-> "NUMBER", val |-> r])
                   <=> next \in {" ", "(", ")", ","}
                /\ next \in {"m", "_", "-", "*", "{", "[", "."}
                   => qitems = <<[typ |-> "METRIC", val |-> qinput]>>

\* C20: Parse of a call f(...) whose arguments are calls, metrics, quoted
\* strings and numbers returns the Func with the name f and one node per
\* argument, in the order of the source: a Func for a call, a Metric for a
\* metric, and a Value with the source text for a number and for a string,
\* its quotes included.
C20_CallArguments ==
    (qpc \in {"parsed", "error"} /\ qinput \in CallInputs)
    => /\ qpc = "parsed"
       /\ \A args \in SeqUpTo(ArgPool, MaxArgs) :
            qinput = callSource(args)
            => qresult = [ok |-> TRUE,
                          expr |-> FuncNode(<<"f">>,
                                            [i \in 1..Len(args) |-> args[i].node])]

\* f("x y", g(a.b)) is parsed: a string before a call
C20_Witness ==
    /\ qpc = "parsed"
    /\ qinput = <<"f", "(", "\"", "x", " ", "y", "\"", ",", " ",
                  "g", "(", "a", ".", "b", ")", ")">>
    /\ Len(qresult.expr.args) = 2
    /\ qresult.expr.args[1].kind = "Value"
    /\ qresult.expr.args[2].kind = "Func"

\* C21: Parse returns a Query or an error, never both and never neither.
\* Empty input, a lone string or number, and input with items left after a
\* complete query are rejected, with no Query; the expression of every
\* Query returned is a Metric or a Func.
C21_QueryOrError ==
    qpc \in {"parsed", "error"}
    => /\ qresult.ok <=> qpc = "parsed"
       /\ qresult.ok => qresult.expr.kind \in {"Metric", "Func"}
       /\ ~qresult.ok => qresult = noQuery
       /\ qinput \in EmptyInputs \cup LiteralInputs \cup TrailingInputs
          => ~qresult.ok

\* f(a.b) followed by one more ')' was rejected
C21_Witness ==
    /\ qpc = "error"
    /\ qinput = <<"f", "(", "a", ".", "b", ")", ")">>
    /\ qitems[Len(qitems)].typ = ")"
    /\ qresult = noQuery


(***************************************************************************)
(* Metric.Expand, Metric.Match, Metric.Split                               *)
(***************************************************************************)

\* one variant for every combination of alternatives of the parts, the
\* alternatives of the leftmost group varying slowest
RECURSIVE combinations(_)
combinations(parts) ==
    IF parts = <<>> THEN <<(<<>>)>>
    ELSE LET rest == combinations(Tail(parts))
             alts == Head(parts).alts
         IN  [k \in 1..(Len(alts) * Len(rest)) |->
                 alts[((k - 1) \div Len(rest)) + 1]
                 \o rest[((k - 1) % Len(rest)) + 1]]

expanded == qpc = "Metric" /\ mcall.fn = "Expand"

C23_AtMostMaxPatterns ==
    expanded => Len(mcall.value) <= maxPatterns

noDuplicates(list) ==
    \A i, j \in 1..Len(list) : list[i] = list[j] => i = j

braceless(m) == \A i \in 1..Len(m) : m[i] \notin {"{", "}"}

\* a metric without braces expands to the list of itself
bracelessIsItself ==
    expanded /\ braceless(qinput) /\ qinput # <<>> => mcall.value = <<qinput>>

\* C24: the list Expand returns holds no variant twice, and a metric without
\* braces expands to the one-element list of itself.
C24_UniqueVariants ==
    /\ expanded => noDuplicates(mcall.value)
    /\ bracelessIsItself

\* a brace is open before position i of m: one opened after the last "}"
openBefore(m, i) ==
    \E j \in 1..(i - 1) :
        /\ m[j] = "{"
        /\ \A k \in (j + 1)..(i - 1) : m[k] # "}"

\* m has a "{" inside an open group, or a group that is never closed
malformed(m) ==
    /\ \A i \in 1..Len(m) : m[i] # "\\"
    /\ \/ \E i \in 1..Len(m) : m[i] = "{" /\ openBefore(m, i)
       \/ openBefore(m, Len(m) + 1)

matched == qpc = "Metric" /\ mcall.fn = "Match"

\* C26: Match(name) is true exactly when some variant of Expand() matches
\* name as a glob pattern ("*" any run, "?" one character, "[abc]" and
\* "[a-z]" one character of the class); a malformed pattern matches nothing
\* and does not fail.
C26_MatchIsSomeVariant ==
    matched
    => /\ mcall.value
          <=> \E pat \in {Expand(qinput)[i] : i \in 1..Len(Expand(qinput))} :
                 match(pat, mcall.name)
       /\ \A c \in MatchCases :
             c.pat = qinput /\ c.name = mcall.name => mcall.value = c.ok
       /\ malformed(qinput) => ~mcall.value

C26_Witness ==
    /\ matched
    /\ qinput = <<"s", ".", "{", "h", ",", "m", ",", "k", "}", "o", "s", "t",
                  "3">>
    /\ mcall.name = <<"s", ".", "k", "o", "s", "t", "3">>
    /\ mcall.value

splitDone == qpc = "Metric" /\ mcall.fn = "Split"

hasDot(m) == \E i \in 1..Len(m) : m[i] = "."

\* C27: for every metric m, Split returns (first, rest) where first holds no
\* dot; when m has a dot, first + "." + rest is m, and otherwise first is m
\* and rest is empty.
C27_SplitAtFirstDot ==
    splitDone
    => /\ ~hasDot(mcall.value.first)
       /\ IF hasDot(qinput)
          THEN mcall.value.first \o <<".">> \o mcall.value.rest = qinput
          ELSE mcall.value.first = qinput /\ mcall.value.rest = <<>>

C27_Witness ==
    /\ splitDone
    /\ qinput = <<"x", ".", "{", "b", ",", "c", "}", ".",
                  "{", "d", ",", "e", ",", "f", "}", ".", "y">>
    /\ mcall.value.first = <<"x">>
    /\ mcall.value.rest = <<"{", "b", ",", "c", "}", ".",
                            "{", "d", ",", "e", ",", "f", "}", ".", "y">>

(***************************************************************************)
(* Mux.render: the buckets and the merged entries                          *)
(***************************************************************************)

\* the elements of a set of numbers in increasing order
RECURSIVE increasing(_)
increasing(S) ==
    IF S = {} THEN <<>>
    ELSE LET least == CHOOSE x \in S : \A y \in S : x <= y
         IN  <<least>> \o increasing(S \ {least})

\* vals are targets of the client, each at most once and in the client's
\* order, as the queries serialise once their prefix is stripped
inClientOrder(vals) ==
    \E S \in SUBSET (1..Len(queries)) :
        vals = [k \in 1..Cardinality(S) |-> String(queries[increasing(S)[k]])]

\* the target values of the request that went out to srv
outgoingTargets(srv) ==
    IF sent[srv].method = "POST" THEN valuesOf(sent[srv].body, "target")
    ELSE valuesOf(sent[srv].rawQuery, "target")

\* C28: within the bucket of each backend of a /render request, the target
\* values of the outgoing request are in the relative order of the client's
\* target list, and each target of the client is in the bucket at most once.
C28_BucketKeepsClientOrder ==
    req.api = "render"
    => \A srv \in Servers :
          /\ \A i, j \in 1..Len(buckets[srv]) :
                i < j => buckets[srv][i] < buckets[srv][j]
          /\ requests[srv].made
             => valuesOf(requests[srv].form, "target")
                  = bucketForm(queries, buckets[srv])
          /\ sent[srv].done => inClientOrder(outgoingTargets(srv))

C28_Witness ==
    /\ req.api = "render"
    /\ req.targets = <<tDevA, tSum>>
    /\ buckets["dev"] = <<1, 2>>
    /\ buckets["prod"] = <<2>>
    /\ sent["dev"].done
    /\ Len(outgoingTargets("dev")) = 2
    /\ outgoingTargets("dev")[1] = <<"a">>

(***************************************************************************)
(* Config.MapRequest                                                       *)
(***************************************************************************)

\* the values of a key in a parsed form, in their order
formValues(form, key) ==
    LET sel == SelectSeq(form, LAMBDA p : p.key = key)
    IN  [i \in 1..Len(sel) |-> sel[i].val]

targetKey == <<"t", "a", "r", "g", "e", "t">>

\* the first target of the URL names a configured prefix before a dot
configuredTarget(u) ==
    LET target == FormValue(ParseQuery(u.rawQuery), targetKey)
    IN  \E mp \in Mappings :
           /\ Len(target) > Len(mp.prefix)
           /\ SubSeq(target, 1, Len(mp.prefix) + 1) = mp.prefix \o <<".">>

\* u2 is u1 sent to the backend of the prefix of its target: scheme and
\* host of the mapping, the path /render, the target without the prefix and
\* its dot, every other parameter with the values it had
mappedFrom(u1, u2) ==
    LET target == FormValue(ParseQuery(u1.rawQuery), targetKey)
    IN  \E mp \in Mappings :
           /\ SubSeq(target, 1, Len(mp.prefix) + 1) = mp.prefix \o <<".">>
           /\ u2.scheme = mp.mapped.scheme
           /\ u2.host = mp.mapped.host
           /\ u2.path = <<"render">>
           /\ formValues(ParseQuery(u2.rawQuery), targetKey)
                = <<From(target, Len(mp.prefix) + 2)>>
           /\ \A k \in 1..Len(FormKeys) :
                 FormKeys[k] # targetKey
                 => formValues(ParseQuery(u2.rawQuery), FormKeys[k])
                      = formValues(ParseQuery(u1.rawQuery), FormKeys[k])
           /\ \A i \in 1..Len(u2.rawQuery) :
                 \E k \in 1..Len(FormKeys) : u2.rawQuery[i].key = FormKeys[k]

\* C29: for a GET /render request whose target has a configured prefix as
\* its first component, MapRequest rewrites the URL to the scheme and host
\* of the mapped backend with the path /render and the target without the
\* prefix and its dot, and keeps every other query parameter.
C29_MapRequestRewrites ==
    [][ /\ req.api = "MapRequest"
        /\ req.method = "GET"
        /\ url.path = <<"render">>
        /\ configuredTarget(url)
        => mappedFrom(url, url') ]_vars

C29_Witness ==
    /\ hpc = "mapped"
    /\ req.method = "GET"
    /\ url = [scheme |-> "https", host |-> "graphite-west.example.net",
              path |-> <<"render">>,
              rawQuery |->
                <<[key |-> <<"f", "r", "o", "m">>, val |-> <<"-", "1", "h">>],
                  [key |-> targetKey,
                   val |-> <<"s", "e", "r", "v", "e", "r", "s", ".", "h", "o",
                             "s", "t", "1", ".", "l", "o", "a", "d", "a", "v",
                             "g", ".", "0", "5">>]>>]

\* C30: for every render entry that a backend returned, the datapoints in
\* the merged response are byte for byte the datapoints of the backend's
\* body; merging changes the target only.
C30_DatapointsKept ==
    isMux /\ req.api = "render"
    => \A n \in 1..Len(result) :
          \E j \in 1..Len(listOf("render", result[n].from)) :
             /\ listOf("render", result[n].from)[j].target
                  = Split(result[n].target).rest
             /\ listOf("render", result[n].from)[j].datapoints
                  = result[n].datapoints

(***************************************************************************)
(* stripPrefix in Mux.render                                               *)
(***************************************************************************)

\* the targets of the model with the first component of every metric
\* removed, written out by hand
firstComponentsRemoved(t) ==
    CASE t = tDevA  -> <<"a">>
      [] t = tProdB -> <<"b">>
      [] t = tSum   -> <<"s", "u", "m", "(", "a", ",", " ", "b", ")">>
      [] t = tBrace -> <<"c">>
      [] t = tNone  -> <<"a">>
      [] OTHER      -> t

\* the form made for the bucket of a server holds, for every query of the
\* bucket, the target of the client with the first components removed
strippedOnce ==
    req.api = "render"
    => \A srv \in Servers :
          requests[srv].made
          => /\ Len(buckets[srv]) > 0
             /\ valuesOf(requests[srv].form, "target")
                  = [k \in 1..Len(buckets[srv]) |->
                       firstComponentsRemoved(req.targets[buckets[srv][k]])]

\* the query of target i is in the bucket of srv
inBucket(i, srv) == \E k \in 1..Len(buckets[srv]) : buckets[srv][k] = i

\* C31: a /render query placed in one or more buckets has its prefix
\* stripped exactly once: the buckets are chosen by the prefixes as the
\* client wrote them, and the text sent to each of the backends is the
\* original with exactly the first component of every metric removed.
C31_StrippedExactlyOnce ==
    req.api = "render" /\ hpc # "accept" /\ out.kind = "none"
    => \A i \in 1..Len(req.targets) : \A srv \in Servers :
          /\ inBucket(i, srv)
             <=> \E k \in 1..Len(Metrics(original(i))) :
                    srv \in matchedBy(original(i), k)
          /\ inBucket(i, srv) /\ sent[srv].done
             => \E n \in 1..Len(outgoingTargets(srv)) :
                   outgoingTargets(srv)[n]
                     = firstComponentsRemoved(req.targets[i])

(***************************************************************************)
(* The lexer's goroutine                                                   *)
(***************************************************************************)

ParseReturned == qpc \in {"parsed", "error"}

\* C32: for every input the lexer's goroutine comes to its end: it sends
\* finitely many items, an error item is the last item, the channel is then
\* closed exactly once, and once Parse has returned, also when the parser
\* stopped asking for tokens early, the goroutine is not blocked on a send.
C32_LexerTerminates ==
    /\ [](lrun.closed <= 1)
    /\ [](lrun.closed = 1 => lrun.pc = "exit" /\ lrun.sent = Len(lex(qinput)))
    /\ [](\A k \in 1..(Len(lex(qinput)) - 1) : lex(qinput)[k].typ # "ERROR")
    /\ [](ParseReturned => lrun.pc = "exit")
    /\ <>(lrun.pc = "exit" /\ lrun.closed = 1 /\ ParseReturned)

\* the parser stopped early, the rest of the items was drained, and Parse
\* has returned
C32_Witness ==
    /\ qpc = "error"
    /\ lrun.pc = "exit"
    /\ Len(qitems) = 2
    /\ lrun.sent = 3
    /\ lex(qinput)[3].typ = "ERROR"

\* the lexer sends an error item on this input
hasErrorItem(input) ==
    \E k \in 1..Len(lex(input)) : lex(input)[k].typ = "ERROR"

\* C33: when the lexer emits an error item, Parse returns an error and no
\* Query, and the parser is given no token after the error item
C33_ErrorItemFailsParse ==
    hasErrorItem(qinput) =>
        /\ \A k \in 1..(Len(qitems) - 1) : qitems[k].typ # "ERROR"
        /\ ParseReturned =>
              /\ qpc = "error"
              /\ qresult = [ok |-> FALSE, expr |-> ValueNode(<<>>)]

C33_Witness ==
    /\ qpc = "error"
    /\ Len(qitems) = 2
    /\ qitems[1].typ = "METRIC"
    /\ qitems[2].typ = "ERROR"
    /\ lrun.todo = <<>>


\* a single path component of identifier characters
loneName(input) ==
    /\ input # <<>>
    /\ \A k \in 1..Len(input) : input[k] \in charIdentifier

\* C34: a lone name such as dev parses into a Metric of one component
\* whose Split has an empty rest, and /metrics/find answers a GET for it
\* with the top-level node of the backend of that name
C34_LoneNameIsTopLevel ==
    qpc \in {"parsed", "error"} /\ loneName(qinput) =>
        /\ qresult.ok
        /\ qresult.expr = MetricNode(qinput)
        /\ Split(qinput).rest = <<>>
        /\ \A srv \in Servers : \A order \in Orders :
             qinput = name(srv) =>
               LET info == metricsInfoOf([method |-> "GET"], qresult, order)
               IN  /\ info.status = 0
                   /\ info.toplevel
                   /\ info.servers = <<srv>>


\* optional sign, one or more digits, then nothing or a dot and digits
numberForm(val) ==
    LET digits == IF val # <<>> /\ val[1] \in {"+", "-"} THEN Tail(val)
                  ELSE val
        n      == acceptRun(digits, 0, charNumeric)
    IN  /\ n >= 1
        /\ \/ n = Len(digits)
           \/ /\ digits[n + 1] = "."
              /\ acceptRun(digits, n + 1, charNumeric) = Len(digits)

\* val is input[a:b] for some a < b
sliceOf(val, input) ==
    /\ val # <<>>
    /\ \E a \in 1..Len(input) :
         /\ a + Len(val) - 1 <= Len(input)
         /\ val = SubSeq(input, a, a + Len(val) - 1)

\* C35: every NUMBER token is an optional sign, one or more digits and
\* optionally a dot followed by digits, and every token the lexer emits
\* is a non-empty contiguous slice of the input
C35_TokenForms ==
    \A k \in 1..Len(qitems) :
        /\ qitems[k].typ = "NUMBER" => numberForm(qitems[k].val)
        /\ qitems[k].typ # "ERROR" => sliceOf(qitems[k].val, qinput)

\* the second half of C35 alone: tokens are non-empty slices of the input
tokensAreSlices ==
    \A k \in 1..Len(qitems) :
        qitems[k].typ # "ERROR" => sliceOf(qitems[k].val, qinput)


RECURSIVE nodeAt(_, _)
\* the node a path of argument indices leads to
nodeAt(e, path) ==
    IF path = <<>> THEN e ELSE nodeAt(e.args[Head(path)], Tail(path))

isMetricItem(it) == it.typ = "METRIC"

\* the metrics of the source text, from left to right
metricsOfSource(toks) ==
    [k \in 1..Len(SelectSeq(toks, isMetricItem)) |->
        SelectSeq(toks, isMetricItem)[k].val]

occurrences(text, str) ==
    Cardinality({k \in 1..Len(str) :
                   /\ k + Len(text) - 1 <= Len(str)
                   /\ SubSeq(str, k, k + Len(text) - 1) = text})

\* how many handles of Metrics() lead to a Metric of this text
handlesOf(text) ==
    Cardinality({k \in 1..Len(nest.handles) :
                   textOfNode(nest.handles[k]) = text})

bothReturned == nest.returned = {"walk", "marshalExpr"}

\* C37: walk and String come to an end on every query, and every Metric
\* that String() prints has a handle in Metrics(), also where the depth
\* limit of 200 cuts the query
C37_PrintedMetricsHaveHandles ==
    /\ [](bothReturned =>
            \A text \in {deepMetric, sideMetric} :
                occurrences(text, nest.text) <= handlesOf(text))
    /\ <>bothReturned

C37_Witness ==
    /\ bothReturned
    /\ nest.tree.n = maxDepth
    /\ handlesOf(deepMetric) = 1
    /\ occurrences(deepMetric, nest.text) = 0
    /\ handlesOf(sideMetric) = maxDepth
    /\ occurrences(sideMetric, nest.text) = maxDepth - 1


\* the worker of a server got a 200 response whose body decodes, be it to
\* an empty list
answeredDecodable(srv) ==
    /\ srv \in Launched
    /\ wpc[srv] = "exit"
    /\ ~wrsp[srv].err
    /\ wrsp[srv].Response.StatusCode = 200
    /\ wrsp[srv].Response.decodable

\* C38: when at least one backend answered 200 with a body that decodes,
\* the client gets the merged JSON list, which may be empty, and neither a
\* 503 nor the forwarded response of a backend, in whatever order the
\* responses arrive
C38_DecodedAnswerIsMerged ==
    (/\ isMux
     /\ hpc = "done"
     /\ \E srv \in Servers : answeredDecodable(srv))
    => out.kind = "json"

\* the same where a body that decodes has entries: then the answer is the
\* merged list
mergedWhenEntries ==
    (/\ isMux
     /\ hpc = "done"
     /\ \E srv \in Servers : answeredDecodable(srv) /\ succeeded(srv))
    => out.kind = "json"


\* a goroutine waits in the select of Accept or Dial
waiting(g) ==
    /\ pipe.calls # <<>>
    /\ pipe.calls[g].fn \in {"Accept", "Dial"}
    /\ pipe.calls[g].pc = "select"

\* C39: Close of the pipe listener never panics, however many goroutines
\* call it and however often; once closed the shutdown channel stays
\* closed; and an Accept or Dial that waits when the listener is closed
\* returns (with errClosed when it finds no partner)
C39_CloseNeverPanics ==
    /\ [](~pipe.panicked)
    /\ [][pipe.shutdown = 1 => pipe'.shutdown = 1]_vars
    /\ \A g \in Goroutines :
         (waiting(g) /\ pipe.shutdown = 1) ~> ~waiting(g)

\* the second part of C39 alone: once closed, shutdown stays closed
closedStaysClosed ==
    [][pipe.shutdown = 1 => pipe'.shutdown = 1]_vars

\* a goroutine alone never panics: when Close panics, another goroutine
\* has closed the channel between the select and the close
panicNeedsTwoClosers ==
    pipe.panicked =>
        \E g, h \in Goroutines :
            /\ g # h
            /\ pipe.calls[g].pc = "panic"
            /\ pipe.calls[h].made > 0

\* with the listener closed and no panic, nobody stays in a select
returnsWhenClosed ==
    \A g \in Goroutines :
        (waiting(g) /\ pipe.shutdown = 1) ~> (~waiting(g) \/ pipe.panicked)

=============================================================================
